---- MODULE Spec2Model ----
(***************************************************************************)
(* EditObjectsManually: the edit session of FilterObjectsDialog and the    *)
(* numbering pass of EditObjectsManually.run.                              *)
(*                                                                         *)
(* A label matrix is a function from pixels <<i, j>> (row, column) to      *)
(* object numbers, 0 being background.  A chain ("artist") is a record     *)
(* [label, edited, outside, xy]; xy is the sequence of its points <<x, y>> *)
(* in units of 1/Scale pixel, so that the midpoints of the cross-chain     *)
(* splice are exact.  numpy index k of to_keep is element k+1 of the       *)
(* sequence to_keep.                                                       *)
(***************************************************************************)
EXTENDS Integers, Sequences, FiniteSets, TLC

VARIABLES
    orig_labels,        \* the array the caller passed to the dialog
    labels,             \* self.labels, the working label matrix
    labels_is_orig,     \* TRUE when self.labels is the same array object as orig_labels
    to_keep,            \* self.to_keep
    artists,            \* self.artists: artist identity -> chain record
    active_artist,      \* self.active_artist (NoArtist = None)
    active_index,       \* self.active_index  (NoIndex = None)
    mode,               \* self.mode
    split_artist,       \* self.split_artist: <<>> = None, else <<preview segment>>
    split_pick_artist,  \* self.split_pick_artist
    split_pick_index,   \* self.split_pick_index
    colormap_len,       \* number of rows of self.colormap
    ol,                 \* labels of the outline pixels found by the last init_labels
    exc,                \* exception raised by the last handler, NoExc if none
    dialog,             \* "open", or the result of EndModal: "ok" / "cancel"
    renumber_choice,    \* the module's renumber_choice setting
    run_state,          \* run(): "editing", "returned" or "raised"
    object_set,         \* what run() added to the workspace: <<>> or <<label matrix>>
    given_labels,       \* history: the contents of orig_labels at construction
    last,               \* history: the last event handled
    allocated,          \* number of object numbers allocated by new object and split
    steps,              \* number of events the session may still handle
    probe,              \* arguments drawn for a function examined on its own
    answer              \* what the function returned for them

vars == <<orig_labels, labels, labels_is_orig, to_keep, artists, active_artist,
          active_index, mode, split_artist, split_pick_artist, split_pick_index,
          colormap_len, ol, exc, dialog, renumber_choice, run_state, object_set,
          given_labels, last, allocated, steps, probe, answer>>

----------------------------------------------------------------------------
(* Bounds of the model *)

\* image shape: orig_labels.shape = (H, W)
H == 3
W == 4
\* number of events a session handles
MaxSteps == 3
\* number of events a session of clicks, motion, S and Escape handles
SplitSteps == 4
\* most vertices of a chain whose index pairs ok_to_split is asked about
MaxVertices == 8
\* number of object numbers new object and split allocate in a session
MaxNew == 1
\* screen pixels per image pixel of the axes transform (the zoom)
Zoom == 5

(* Program constants *)

Scale == 2
epsilon == 5
Radius == 20
NSides == 12
MaxChain == 40
MaxStride == 10

R_RENUMBER == "Renumber"
R_RETAIN == "Retain"
NORMAL_MODE == "normal"
SPLIT_PICK_FIRST_MODE == "split1"
SPLIT_PICK_SECOND_MODE == "split2"

NoArtist == 0
NoIndex == -1
NoExc == "none"
NoProbe == <<>>
NoAnswer == <<>>

----------------------------------------------------------------------------
(* Small arithmetic and sequence helpers *)

\* F applied to the value of e, which is computed once
Bind(e, F(_)) == CHOOSE r \in {F(v) : v \in {e}} : TRUE

Abs(a) == IF a < 0 THEN -a ELSE a
Min2(a, b) == IF a < b THEN a ELSE b
Max2(a, b) == IF a < b THEN b ELSE a
Sign(a) == IF a < 0 THEN -1 ELSE IF a > 0 THEN 1 ELSE 0
SetMax(S) == CHOOSE m \in S : \A k \in S : k <= m
SetMin(S) == CHOOSE m \in S : \A k \in S : m <= k
Range(s) == {s[k] : k \in DOMAIN s}
Reverse(s) == [k \in 1..Len(s) |-> s[Len(s) + 1 - k]]
\* python slice s[a:b] of a sequence holding numpy indexes 0..Len(s)-1
Slice(s, a, b) ==
    LET lo == IF a < 0 THEN 0 ELSE IF a > Len(s) THEN Len(s) ELSE a
        hi == IF b < 0 THEN 0 ELSE IF b > Len(s) THEN Len(s) ELSE b
    IN IF hi <= lo THEN <<>> ELSE SubSeq(s, lo + 1, hi)
\* a // b rounded to the nearest integer, b > 0
RoundDiv(a, b) == (2 * a + b) \div (2 * b)

Pixels == {<<i, j>> : i \in 0..(H - 1), j \in 0..(W - 1)}
PixelCentre(p) == <<Scale * p[2], Scale * p[1]>>
\* int(event.xdata): truncation of a non-negative coordinate
PixelOf(c) == <<c[2] \div Scale, c[1] \div Scale>>

Cross(o, a, b) == (a[1] - o[1]) * (b[2] - o[2]) - (a[2] - o[2]) * (b[1] - o[1])
Dot(o, a, b) == (a[1] - o[1]) * (b[1] - o[1]) + (a[2] - o[2]) * (b[2] - o[2])
Dist2(a, b) == Dot(a, b, b)

----------------------------------------------------------------------------
(* cellprofiler.cpmath.cpmorphology: polygon_lines_to_mask, convex_hull_image *)

\* p lies on the closed segment a-b
OnSegment(p, a, b) ==
    /\ Cross(a, b, p) = 0
    /\ Min2(a[1], b[1]) <= p[1] /\ p[1] <= Max2(a[1], b[1])
    /\ Min2(a[2], b[2]) <= p[2] /\ p[2] <= Max2(a[2], b[2])

\* the ray from p towards +x crosses the segment a-b (even-odd rule)
RayCrosses(p, a, b) ==
    /\ (a[2] > p[2]) # (b[2] > p[2])
    /\ IF b[2] > a[2]
       THEN (p[1] - a[1]) * (b[2] - a[2]) < (p[2] - a[2]) * (b[1] - a[1])
       ELSE (p[1] - a[1]) * (b[2] - a[2]) > (p[2] - a[2]) * (b[1] - a[1])

\* the point c is on one of the lines between consecutive points of xy, or
\* an odd number of them lies to its right
InLines(c, xy) ==
    LET edges == 1..(Len(xy) - 1)
    IN \/ \E k \in edges : OnSegment(c, xy[k], xy[k + 1])
       \/ Cardinality({k \in edges : RayCrosses(c, xy[k], xy[k + 1])}) % 2 = 1

\* polygon_lines_to_mask(i[:-1], j[:-1], i[1:], j[1:], shape): the pixels on a
\* line or enclosed by the lines
polygon_lines_to_mask(xy) == {p \in Pixels : InLines(PixelCentre(p), xy)}

\* p is outside the convex hull of the points S: S lies strictly to one side
\* of some ray from p through a point of S, or on that ray
OutsideHull(p, S) ==
    /\ p \notin S
    /\ \/ S = {}
       \/ \E a \in S : \A q \in S :
             \/ Cross(p, a, q) > 0
             \/ Cross(p, a, q) = 0 /\ Dot(p, a, q) > 0

\* convex_hull_image(mask): the pixels inside the convex hull of the mask
convex_hull_image(mask) == {p \in Pixels : ~OutsideHull(p, mask)}

----------------------------------------------------------------------------
(* make_control_points: boundary tracing *)

traversal_order ==
    << <<1, 0, 5>>, <<1, -1, 6>>, <<0, -1, 7>>, <<-1, -1, 0>>,
       <<-1, 0, 1>>, <<-1, 1, 2>>, <<0, 1, 3>>, <<1, 1, 4>> >>

\* mutant of TraversalRow: the neighbours are looked at in the same order
\* whatever the direction
TraversalRowUnturned(direction, index) == traversal_order[index + 1]

\* traversal_order[direction, index, :] after the mgrid re-indexing
TraversalRow(direction, index) == traversal_order[((direction + index) % 8) + 1]

\* the two connectivity structures: objects 8-connected, holes 4-connected
Structure(polarity) ==
    IF polarity
    THEN {<<i, j>> : i \in -1..1, j \in -1..1} \ {<<0, 0>>}
    ELSE {<<-1, 0>>, <<1, 0>>, <<0, -1>>, <<0, 1>>}

\* the padded array: row and column -1 and H, W surround the image
PaddedPixels == {<<i, j>> : i \in -1..H, j \in -1..W}

\* raster (row-major) order of pixels
RasterLeq(p, q) == p[1] < q[1] \/ (p[1] = q[1] /\ p[2] <= q[2])
RasterFirst(S) == CHOOSE p \in S : \A q \in S : RasterLeq(p, q)

\* the component of S grown from seen, whose newest pixels are front
RECURSIVE Flood(_, _, _, _)
Flood(seen, front, S, structure) ==
    IF front = {} THEN seen
    ELSE Bind(({<<p[1] + d[1], p[2] + d[2]>> : p \in front, d \in structure} \cap S)
                  \ seen, LAMBDA nxt :
             Flood(seen \cup nxt, nxt, S, structure))

\* scipy.ndimage.label(mask, structure): the components, numbered in raster order
RECURSIVE Label(_, _)
Label(S, structure) ==
    IF S = {} THEN <<>>
    ELSE Bind(Flood({RasterFirst(S)}, {RasterFirst(S)}, S, structure), LAMBDA c :
             <<c>> \o Label(S \ c, structure))

\* np.argmin(i*i+j*j) over the component's pixels in padded coordinates:
\* the first pixel in raster order among those nearest the padded origin
TopLeftKey(p) == (p[1] + 1) * (p[1] + 1) + (p[2] + 1) * (p[2] + 1)
\* mutant of TopLeft: the first pixel of the component in raster order
TopLeftRaster(C) == RasterFirst(C)

TopLeft(C) ==
    CHOOSE p \in C : \A q \in C :
        \/ TopLeftKey(p) < TopLeftKey(q)
        \/ TopLeftKey(p) = TopLeftKey(q) /\ RasterLeq(p, q)

\* one pass of the while loop of the walk: the point is appended, the first
\* neighbour of the component in traversal order is taken, the walk ends when
\* that is the start
WalkStep(C, start, w) ==
    IF w.status # "walking" THEN w
    ELSE
    Bind(Append(w.chain, w.at), LAMBDA chain1 :
    Bind({index \in 0..7 :
             LET t == TraversalRow(w.direction, index)
             IN <<w.at[1] + t[1], w.at[2] + t[2]>> \in C}, LAMBDA hits :
        IF hits = {}
        THEN [w EXCEPT !.chain = chain1, !.status = "IndexError"]
        ELSE LET t == TraversalRow(w.direction, SetMin(hits))
                 nxt == <<w.at[1] + t[1], w.at[2] + t[2]>>
             IN IF nxt = start
                THEN [w EXCEPT !.chain = chain1, !.status = "ok"]
                ELSE [at |-> nxt, direction |-> t[3], chain |-> chain1,
                      status |-> "walking"]))

\* n passes of the loop, or as many as the walk takes to end
RECURSIVE WalkSteps(_, _, _, _)
WalkSteps(C, start, w, n) ==
    IF n = 0 \/ w.status # "walking" THEN w
    ELSE IF n = 1 THEN WalkStep(C, start, w)
    ELSE Bind(WalkSteps(C, start, w, n \div 2), LAMBDA half :
             WalkSteps(C, start, half, n - (n \div 2)))

\* the while loop of the walk; fuel bounds the (pixel, direction) pairs it can
\* visit before it must repeat one, and a walk that outlasts it never ends
Walk(C, start, at, direction, chain, fuel) ==
    Bind(WalkSteps(C, start, [at |-> at, direction |-> direction, chain |-> chain,
                              status |-> "walking"], fuel + 1), LAMBDA w :
        [status |-> IF w.status = "walking" THEN "hang" ELSE w.status,
         chain |-> w.chain])

\* chain[::markevery]
Stride(chain, every) ==
    [n \in 1..(((Len(chain) - 1) \div every) + 1) |-> chain[(n - 1) * every + 1]]

\* mutant of markevery: the stride is at least 10
markevery_at_least_ten(n) == Max2(MaxStride, (n + 19) \div 20)

\* markevery = min(10, int((len(chain) + 19) / 20))
markevery(n) == Min2(MaxStride, (n + 19) \div 20)

\* if len(chain) > 40: chain = chain[::markevery]
Decimated(chain) ==
    IF Len(chain) > MaxChain THEN Stride(chain, markevery(Len(chain))) ELSE chain

\* the chain of one component, closed: reversed for a hole, decimated when long
TraceComponent(C, polarity) ==
    Bind(TopLeft(C), LAMBDA start :
    Bind(Walk(C, start, start, 2, <<>>, 8 * Cardinality(C)), LAMBDA w :
    Bind(IF polarity THEN w.chain ELSE Reverse(w.chain), LAMBDA wound :
    Bind(Append(Decimated(wound), start), LAMBDA closed :
        [status |-> w.status,
         xy |-> [k \in 1..Len(closed) |->
                    <<Scale * closed[k][2], Scale * closed[k][1]>>]]))))

\* the components make_control_points traces for one polarity
TracedComponents(m, object_number, polarity) ==
    LET mask == {p \in Pixels : m[p] = object_number}
        fore == IF polarity THEN mask ELSE PaddedPixels \ mask
        comps == Label(fore, Structure(polarity))
    IN SelectSeq(comps, LAMBDA C :
           /\ polarity \/ <<-1, -1>> \notin C
           /\ Cardinality(C) >= 2)

----------------------------------------------------------------------------
(* The dialog as a value: the fields of FilterObjectsDialog a handler reads
   and writes.  A handler is an operator from this record to the record it
   leaves behind; exc names the exception that ended it early, if any.      *)

Self ==
    [orig_labels |-> orig_labels, labels |-> labels,
     labels_is_orig |-> labels_is_orig, to_keep |-> to_keep,
     artists |-> artists, active_artist |-> active_artist,
     active_index |-> active_index, mode |-> mode,
     split_artist |-> split_artist, split_pick_artist |-> split_pick_artist,
     split_pick_index |-> split_pick_index, colormap_len |-> colormap_len,
     ol |-> ol, exc |-> NoExc]

Raise(s, e) == [s EXCEPT !.exc = e]
\* statement sequencing: F runs only if nothing was raised before it
Then(s, F(_)) == IF s.exc # NoExc THEN s ELSE F(s)

\* self.labels[...] = ...: a write through the array self.labels refers to
WriteLabels(s, m) ==
    [s EXCEPT !.labels = m,
              !.orig_labels = IF s.labels_is_orig THEN m ELSE @]
\* self.labels = <a new array>
BindLabels(s, m) == [s EXCEPT !.labels = m, !.labels_is_orig = FALSE]

\* to_keep[k] for a numpy index k
KeepAt(keep, k) == keep[k + 1]
Live(s) == DOMAIN s.artists
LabelsOf(s) == {s.artists[a].label : a \in Live(s)}
LabelsIn(m) == {m[p] : p \in Pixels} \ {0}

\* a new Line2D is an object distinct from every artist still referred to
NewArtist(s) ==
    SetMin({n \in 1..(Cardinality(Live(s)) + 3) :
               n \notin Live(s) \cup {s.active_artist, s.split_pick_artist}})

AddArtist(s, rec) ==
    LET a == NewArtist(s)
    IN [s EXCEPT !.artists = [b \in Live(s) \cup {a} |->
                                 IF b = a THEN rec ELSE s.artists[b]]]
DelArtists(s, gone) ==
    [s EXCEPT !.artists = [b \in Live(s) \ gone |-> s.artists[b]]]
SetArtist(s, a, rec) == [s EXCEPT !.artists[a] = rec]

init_labels(s) ==
    IF \E p \in Pixels : s.labels[p] >= Len(s.to_keep)
    THEN Raise(s, "IndexError")
    ELSE [s EXCEPT !.ol = LabelsIn(s.labels), !.colormap_len = Len(s.to_keep)]

display(s) ==
    IF \E l \in s.ol : l >= Len(s.to_keep)
    THEN Raise(s, "IndexError")
    ELSE s

\* the loop of make_control_points over the components of one polarity
RECURSIVE TraceInto(_, _, _, _, _)
TraceInto(s, object_number, comps, polarity, k) ==
    IF k > Len(comps) \/ s.exc # NoExc THEN s
    ELSE Bind(TraceComponent(comps[k], polarity), LAMBDA t :
         Bind(IF t.status # "ok" THEN Raise(s, t.status)
              ELSE IF object_number >= s.colormap_len
              THEN Raise(s, "IndexError")
              ELSE AddArtist(s, [label |-> object_number, edited |-> FALSE,
                                 outside |-> polarity, xy |-> t.xy,
                                 dtype |-> "int"]), LAMBDA s1 :
             TraceInto(s1, object_number, comps, polarity, k + 1)))

make_control_points(s, object_number) ==
    LET s1 == TraceInto(s, object_number,
                        TracedComponents(s.labels, object_number, TRUE), TRUE, 1)
    IN TraceInto(s1, object_number,
                 TracedComponents(s.labels, object_number, FALSE), FALSE, 1)

\* the mask close_label builds: each chain's polygon toggles its pixels
ChainsMask(s, my_artists) ==
    {p \in Pixels :
        Cardinality({a \in my_artists :
                        InLines(PixelCentre(p), s.artists[a].xy)}) % 2 = 1}

close_label(s, label, show) ==
    LET my_artists == {a \in Live(s) : s.artists[a].label = label}
        mask == ChainsMask(s, my_artists)
        s1 == IF \E a \in my_artists : s.artists[a].edited
              THEN LET w == WriteLabels(s, [p \in Pixels |->
                                IF p \in mask THEN label
                                ELSE IF s.labels[p] = label THEN 0
                                ELSE s.labels[p]])
                   IN IF show
                      THEN Then(init_labels(w), LAMBDA t : display(t))
                      ELSE w
              ELSE s
    IN Then(s1, LAMBDA t : DelArtists(t, my_artists))

----------------------------------------------------------------------------
(* Hit testing and the mouse handlers *)

\* matplotlib Path(xy).contains_point(c): even-odd rule on the closed path
contains_point(xy, c) ==
    Cardinality({k \in 1..Len(xy) :
                    RayCrosses(c, xy[k], xy[(k % Len(xy)) + 1])}) % 2 = 1

\* the screen distance of data point a from the cursor is below epsilon
WithinEpsilon(a, c) == Zoom * Zoom * Dist2(a, c) < epsilon * epsilon * Scale * Scale

\* np.argmin over the chain's points but the last: the first nearest index
NearestIndex(xy, c) ==
    Bind([k \in 0..(Len(xy) - 2) |-> Dist2(xy[k + 1], c)], LAMBDA d :
        CHOOSE k \in DOMAIN d : \A m \in DOMAIN d : d[k] < d[m] \/ (d[k] = d[m] /\ k <= m))

\* mutant of get_control_point: the first chain found within epsilon wins
get_control_point_first_found(s, c) ==
    Bind([a \in Live(s) |-> NearestIndex(s.artists[a].xy, c)], LAMBDA index :
    Bind({a \in Live(s) : WithinEpsilon(s.artists[a].xy[index[a] + 1], c)}, LAMBDA near :
        IF near = {} THEN {<<NoArtist, NoIndex>>}
        ELSE {<<a, index[a]>> : a \in near}))

\* get_control_point: the results the loop can return, one per order in which
\* the dictionary may yield the artists; <<NoArtist, NoIndex>> is (None, None)
get_control_point(s, c) ==
    Bind([a \in Live(s) |-> NearestIndex(s.artists[a].xy, c)], LAMBDA index :
    Bind([a \in Live(s) |-> Dist2(s.artists[a].xy[index[a] + 1], c)], LAMBDA d :
    Bind({a \in Live(s) : WithinEpsilon(s.artists[a].xy[index[a] + 1], c)}, LAMBDA near :
    Bind({a \in near : \A b \in near : d[a] <= d[b]}, LAMBDA best :
        IF best = {} THEN {<<NoArtist, NoIndex>>}
        ELSE {<<a, index[a]>> : a \in best}))))

\* the first artist of the loop of on_click whose path contains the cursor
FirstContaining(s, c) ==
    LET hit == {a \in Live(s) : contains_point(s.artists[a].xy, c)}
    IN IF hit = {} THEN {NoArtist} ELSE hit

on_mouse_button_up(s) ==
    [s EXCEPT !.active_artist = NoArtist, !.active_index = NoIndex]

\* the tail of on_click: the object under the cursor is toggled or opened
ClickObject(s, ev) ==
    LET px == PixelOf(ev.c)
        lnum == s.labels[px]
    IN IF px \notin Pixels \/ lnum = 0 THEN s
       ELSE IF ev.button = 1
       THEN IF lnum >= Len(s.to_keep) THEN Raise(s, "IndexError")
            ELSE display([s EXCEPT !.to_keep[lnum + 1] =
                             IF ev.inaxes = "orig" THEN ~@
                             ELSE IF ev.inaxes = "keep" THEN FALSE
                             ELSE TRUE])
       ELSE IF ev.button = 3 THEN make_control_points(s, lnum)
       ELSE s

\* np.array(c, int), and a float written into an integer array: truncation
Truncate(c) == <<Scale * (c[1] \div Scale), Scale * (c[2] \div Scale)>>
Stored(dtype, c) == IF dtype = "int" THEN Truncate(c) ELSE c

\* matplotlib segments_intersect: parallel segments never intersect
SegmentsIntersect(p1, p2, p3, p4) ==
    LET den == (p4[2] - p3[2]) * (p2[1] - p1[1]) - (p4[1] - p3[1]) * (p2[2] - p1[2])
        n1 == (p4[1] - p3[1]) * (p1[2] - p3[2]) - (p4[2] - p3[2]) * (p1[1] - p3[1])
        n2 == (p2[1] - p1[1]) * (p1[2] - p3[2]) - (p2[2] - p1[2]) * (p1[1] - p3[1])
        Unit(n) == IF den > 0 THEN 0 <= n /\ n <= den ELSE den <= n /\ n <= 0
    IN den # 0 /\ Unit(n1) /\ Unit(n2)

\* Path.intersects_path(other, filled = False)
intersects_path(path, other) ==
    \E i \in 1..(Len(path) - 1), j \in 1..(Len(other) - 1) :
        SegmentsIntersect(path[i], path[i + 1], other[j], other[j + 1])

\* any(on_segment): the new point lies on a line of xydata, between its ends
\* in both coordinates
AnyOnSegment(new_pt, xydata) ==
    \E k \in 1..(Len(xydata) - 1) :
        /\ xydata[k] # xydata[k + 1]
        /\ Cross(xydata[k], xydata[k + 1], new_pt) = 0
        /\ Sign(new_pt[1] - xydata[k][1]) # Sign(new_pt[1] - xydata[k + 1][1])
        /\ Sign(new_pt[2] - xydata[k][2]) # Sign(new_pt[2] - xydata[k + 1][2])

handle_mouse_moved_active_mode(s, ev) ==
    IF ev.inaxes # "orig" THEN s
    ELSE IF s.active_artist \notin Live(s) THEN Raise(s, "KeyError")
    ELSE
    Bind(s.artists[s.active_artist], LAMBDA me :
    Bind(Slice(me.xy, 0, Len(me.xy) - 1), LAMBDA data :
    Bind(Len(data), LAMBDA n_points :
    IF n_points = 0 THEN Raise(s, "ZeroDivisionError")
    ELSE
    Bind(Truncate(ev.c), LAMBDA new_pt :
    Bind(<<data[((n_points - 1 + s.active_index) % n_points) + 1],
           new_pt,
           data[((s.active_index + 1) % n_points) + 1]>>, LAMBDA path :
    Bind(Slice(data, s.active_index, n_points)
             \o Slice(data, 0, s.active_index + 1), LAMBDA rotated :
    Bind([a \in Live(s) |-> IF a = s.active_artist
                            THEN Slice(rotated, 2, Len(rotated) - 2)
                            ELSE s.artists[a].xy], LAMBDA XYData :
    Bind(Stored(me.dtype, ev.c), LAMBDA at :
    IF \E a \in Live(s) :
          /\ s.artists[a].label = me.label
          /\ ~(a = s.active_artist /\ n_points <= 4)
          /\ ~AnyOnSegment(new_pt, XYData[a])
          /\ intersects_path(path, XYData[a])
    THEN s
    ELSE IF s.active_index >= Len(me.xy) THEN Raise(s, "IndexError")
    ELSE SetArtist(s, s.active_artist,
             [me EXCEPT !.edited = TRUE,
                        !.xy = [k \in 1..Len(me.xy) |->
                                   IF k = s.active_index + 1
                                      \/ (s.active_index = 0 /\ k = Len(me.xy))
                                   THEN at ELSE me.xy[k]]])))))))))

----------------------------------------------------------------------------
(* Split mode *)

\* mutant of enter_split_mode: the key is ignored while no chain is live
enter_split_mode_if_chains(s) ==
    IF Live(s) = {} THEN s ELSE [s EXCEPT !.mode = SPLIT_PICK_FIRST_MODE]

enter_split_mode(s) == [s EXCEPT !.mode = SPLIT_PICK_FIRST_MODE]

\* mutant of exit_split_mode: the preview segment is left in place
exit_split_mode_keeping_preview(s) == [s EXCEPT !.mode = NORMAL_MODE]

exit_split_mode(s) ==
    IF s.mode = SPLIT_PICK_SECOND_MODE /\ s.split_artist = <<>>
    THEN Raise(s, "AttributeError")
    ELSE [s EXCEPT !.split_artist = IF s.mode = SPLIT_PICK_SECOND_MODE THEN <<>> ELSE @,
                   !.mode = NORMAL_MODE]

\* mutant of on_split_first_click: the test for a missed pick is left out
on_split_first_click_unchecked(s, ev, pick) ==
    IF ev.inaxes # "orig" THEN s
    ELSE [s EXCEPT !.split_pick_artist = pick[1],
                   !.split_pick_index = pick[2],
                   !.split_artist = <<[xy |-> <<ev.c, ev.c>>, color |-> "blue",
                                       dtype |-> "float"]>>,
                   !.mode = SPLIT_PICK_SECOND_MODE]

on_split_first_click(s, ev, pick) ==
    IF ev.inaxes # "orig" \/ pick[1] = NoArtist THEN s
    ELSE LET at == s.artists[pick[1]].xy[pick[2] + 1]
         IN [s EXCEPT !.split_pick_artist = pick[1],
                      !.split_pick_index = pick[2],
                      !.split_artist = <<[xy |-> <<at, at>>, color |-> "blue",
                                          dtype |-> s.artists[pick[1]].dtype]>>,
                      !.mode = SPLIT_PICK_SECOND_MODE]

\* the look-ups of ok_to_split raise KeyError for an artist that is not live
OkToSplitRaises(s, pick_artist) ==
    pick_artist \notin Live(s) \/ s.split_pick_artist \notin Live(s)

\* mutant of SameChainOk: the test for the first and the last vertex is left out
SameChainOkNoWrap(n_xdata, pick_index, split_index) ==
    ~(Max2(pick_index, split_index) - Min2(pick_index, split_index) < 2)

\* the same-chain test of ok_to_split on the two indexes and len(get_xdata())
SameChainOk(n_xdata, pick_index, split_index) ==
    LET min_index == Min2(pick_index, split_index)
        max_index == Max2(pick_index, split_index)
    IN /\ ~(max_index - min_index < 2)
       /\ ~(n_xdata - max_index <= 2 /\ min_index = 0)

\* mutant of ok_to_split: two chains of one object are accepted whatever their sides
ok_to_split_any_sides(s, pick_artist, pick_index) ==
    IF s.artists[pick_artist].label # s.artists[s.split_pick_artist].label
    THEN FALSE
    ELSE IF pick_artist = s.split_pick_artist
    THEN SameChainOk(Len(s.artists[pick_artist].xy), pick_index, s.split_pick_index)
    ELSE TRUE

ok_to_split(s, pick_artist, pick_index) ==
    IF s.artists[pick_artist].label # s.artists[s.split_pick_artist].label
    THEN FALSE
    ELSE IF pick_artist = s.split_pick_artist
    THEN SameChainOk(Len(s.artists[pick_artist].xy), pick_index, s.split_pick_index)
    ELSE s.artists[pick_artist].outside # s.artists[s.split_pick_artist].outside

handle_mouse_moved_pick_second_mode(s, ev, pick) ==
    IF ev.inaxes # "orig" THEN s
    ELSE IF s.split_artist = <<>> THEN Raise(s, "AttributeError")
    ELSE LET line == s.split_artist[1]
             moved == [line EXCEPT !.xy[2] = Stored(line.dtype, ev.c)]
             s1 == [s EXCEPT !.split_artist = <<moved>>]
         IN IF pick[1] # NoArtist /\ OkToSplitRaises(s, pick[1])
            THEN Raise(s1, "KeyError")
            ELSE [s1 EXCEPT !.split_artist[1].color =
                     IF pick[1] # NoArtist /\ ok_to_split(s, pick[1], pick[2])
                     THEN "red" ELSE "blue"]

\* self.to_keep grown by one entry, True
GrowKeep(s) == [s EXCEPT !.to_keep = Append(@, TRUE)]

\* xy0 and xy1 of on_split_second_click: the chain that keeps the ends of xy
\* and the chain cut out between the two picks
CutOuter(xy, idx0, idx1) == Slice(xy, 0, idx0 + 1) \o Slice(xy, idx1, Len(xy))
CutInner(xy, idx0, idx1) == Slice(xy, idx0, idx1 + 1) \o Slice(xy, idx0, idx0 + 1)

\* the same-chain branch of on_split_second_click
SplitChain(s, pick_artist, pick_index) ==
    LET me == s.artists[pick_artist]
        xy == me.xy
        idx0 == Min2(pick_index, s.split_pick_index)
        idx1 == Max2(pick_index, s.split_pick_index)
        xy0 == CutOuter(xy, idx0, idx1)
        xy1 == CutInner(xy, idx0, idx1)
        new_object_number == Len(s.to_keep)
        old_object_number == me.label
        s1 == SetArtist(s, pick_artist, [me EXCEPT !.xy = xy0, !.dtype = "float"])
        s2 == AddArtist(s1, [label |-> new_object_number, edited |-> TRUE,
                             outside |-> me.outside, xy |-> xy1, dtype |-> "float"])
        s3 == GrowKeep([s2 EXCEPT !.artists[pick_artist].edited = TRUE])
    IN Then(Then(Then(Then(Then(
           close_label(s3, old_object_number, FALSE),
           LAMBDA t : close_label(t, new_object_number, FALSE)),
           LAMBDA t : init_labels(t)),
           LAMBDA t : make_control_points(t, old_object_number)),
           LAMBDA t : make_control_points(t, new_object_number)),
           LAMBDA t : display(t))

\* Path(a).contains_path(Path(b)): every point of b is inside a
contains_path(a, b) == \A k \in 1..Len(b) : contains_point(a, b[k])

Midpoint(p, q) == <<(p[1] + q[1]) \div 2, (p[2] + q[2]) \div 2>>

\* the cross-chain branch of on_split_second_click
SpliceChains(s, pick_artist, pick_index) ==
    Bind(contains_path(s.artists[s.split_pick_artist].xy,
                       s.artists[pick_artist].xy), LAMBDA first_in :
    Bind(IF first_in THEN s.split_pick_artist ELSE pick_artist, LAMBDA outside_artist :
    Bind(IF first_in THEN pick_artist ELSE s.split_pick_artist, LAMBDA inside_artist :
    Bind(IF first_in THEN s.split_pick_index ELSE pick_index, LAMBDA outside_index :
    Bind(IF first_in THEN pick_index ELSE s.split_pick_index, LAMBDA inside_index :
    Bind(s.artists[outside_artist].xy, LAMBDA xy0 :
    Bind(s.artists[inside_artist].xy, LAMBDA xy1 :
    LET Left(a, idx) == a[(IF idx = 0 THEN Len(a) - 2 ELSE idx - 1) + 1]
        Right(a, idx) == a[(IF idx = Len(a) - 2 THEN 0 ELSE idx + 1) + 1]
        out_first == Midpoint(Left(xy0, outside_index), xy0[outside_index + 1])
        out_last == Midpoint(Right(xy0, outside_index), xy0[outside_index + 1])
        in_first == Midpoint(Left(xy1, inside_index), xy1[inside_index + 1])
        in_last == Midpoint(Right(xy1, inside_index), xy1[inside_index + 1])
    IN Bind(Slice(xy0, 0, outside_index)
                \o <<out_first, in_last>>
                \o Slice(xy1, inside_index + 1, Len(xy1) - 1)
                \o Slice(xy1, 0, inside_index)
                \o <<in_first, out_last>>
                \o Slice(xy0, outside_index + 1, Len(xy0)), LAMBDA joined :
       DelArtists([s EXCEPT !.artists[outside_artist].xy =
                                [joined EXCEPT ![Len(joined)] = joined[1]],
                            !.artists[outside_artist].dtype = "float"],
                  {inside_artist})))))))))

on_split_second_click(s, ev, pick) ==
    IF ev.inaxes # "orig" THEN s
    ELSE IF OkToSplitRaises(s, pick[1]) THEN Raise(s, "KeyError")
    ELSE IF ~ok_to_split(s, pick[1], pick[2]) THEN s
    ELSE Then(IF pick[1] = s.split_pick_artist
              THEN SplitChain(s, pick[1], pick[2])
              ELSE SpliceChains(s, pick[1], pick[2]),
              LAMBDA t : exit_split_mode(t))

\* mutant of on_click: the tools of normal mode answer clicks in every mode
on_click_any_mode(s, ev, pick, first) ==
    IF ev.inaxes \notin {"orig", "keep", "remove"} THEN s
    ELSE IF ev.inaxes = "orig" /\ ev.button = 1 /\ pick[1] # NoArtist
    THEN [s EXCEPT !.active_artist = pick[1], !.active_index = pick[2]]
    ELSE IF ev.inaxes = "orig" /\ ev.button = 3 /\ first # NoArtist
    THEN close_label(s, s.artists[first].label, TRUE)
    ELSE ClickObject(s, ev)

on_click(s, ev, pick, first) ==
    IF ev.inaxes \notin {"orig", "keep", "remove"} THEN s
    ELSE IF s.mode = SPLIT_PICK_FIRST_MODE THEN on_split_first_click(s, ev, pick)
    ELSE IF s.mode = SPLIT_PICK_SECOND_MODE THEN on_split_second_click(s, ev, pick)
    ELSE IF ev.inaxes = "orig" /\ ev.button = 1 /\ pick[1] # NoArtist
    THEN [s EXCEPT !.active_artist = pick[1], !.active_index = pick[2]]
    ELSE IF ev.inaxes = "orig" /\ ev.button = 3 /\ first # NoArtist
    THEN close_label(s, s.artists[first].label, TRUE)
    ELSE ClickObject(s, ev)

on_mouse_moved(s, ev, pick) ==
    IF s.active_artist # NoArtist THEN handle_mouse_moved_active_mode(s, ev)
    ELSE IF s.mode = SPLIT_PICK_SECOND_MODE
    THEN handle_mouse_moved_pick_second_mode(s, ev, pick)
    ELSE s

----------------------------------------------------------------------------
(* The key handlers of normal mode *)

RECURSIVE SortedSeq(_)
SortedSeq(S) == IF S = {} THEN <<>> ELSE <<SetMin(S)>> \o SortedSeq(S \ {SetMin(S)})

\* for label in all_labels: self.close_label(label, display = False)
RECURSIVE CloseAll(_, _, _)
CloseAll(s, all_labels, k) ==
    IF k > Len(all_labels) \/ s.exc # NoExc THEN s
    ELSE CloseAll(close_label(s, all_labels[k], FALSE), all_labels, k + 1)

\* the keep_to_keep / renumbering block shared by join_objects and convex_hull:
\* all_labels[1:] leave to_keep, their pixels take the number all_labels[0],
\* the numbers that stay are made consecutive
MergeLabels(s, all_labels) ==
    LET n == Len(s.to_keep)
        gone == Range(Slice(all_labels, 1, Len(all_labels)))
        keep_to_keep == [k \in 0..(n - 1) |-> k \notin gone]
        kept == SortedSeq({k \in 0..(n - 1) : keep_to_keep[k]})
        renumbering == [k \in 0..(n - 1) |->
                           IF keep_to_keep[k]
                           THEN Cardinality({m \in 0..(k - 1) : keep_to_keep[m]})
                           ELSE all_labels[1]]
    IN IF \E l \in gone : l >= n THEN Raise(s, "IndexError")
       ELSE LET s1 == [s EXCEPT !.to_keep = [i \in 1..Len(kept) |-> s.to_keep[kept[i] + 1]]]
            IN IF \E p \in Pixels : s.labels[p] >= n THEN Raise(s1, "IndexError")
               ELSE BindLabels(s1, [p \in Pixels |-> renumbering[s.labels[p]]])

join_objects(s) ==
    LET all_labels == SortedSeq(LabelsOf(s))
    IN IF Len(all_labels) < 2 THEN s
       ELSE Then(Then(Then(Then(
                CloseAll(s, all_labels, 1),
                LAMBDA t : MergeLabels(t, all_labels)),
                LAMBDA t : init_labels(t)),
                LAMBDA t : make_control_points(t, all_labels[1])),
                LAMBDA t : display(t))

\* self.labels[mask] = object_number for the hull of the object's pixels
HullLabels(s, object_number) ==
    LET mask == convex_hull_image({p \in Pixels : s.labels[p] = object_number})
    IN WriteLabels(s, [p \in Pixels |-> IF p \in mask THEN object_number ELSE s.labels[p]])

convex_hull(s) ==
    LET all_labels == SortedSeq(LabelsOf(s))
    IN IF Live(s) = {} THEN s
       ELSE Then(Then(Then(Then(Then(
                CloseAll(s, all_labels, 1),
                LAMBDA t : IF Len(all_labels) > 1 THEN MergeLabels(t, all_labels) ELSE t),
                LAMBDA t : HullLabels(t, all_labels[1])),
                LAMBDA t : init_labels(t)),
                LAMBDA t : make_control_points(t, all_labels[1])),
                LAMBDA t : display(t))

\* add_control_point, one line l0-l1 of a chain against the cursor c:
\* proj / llen as the fraction ProjNum / ProjDen, d2 as Cross^2 / ProjDen
ProjNum(l0, l1, c) == Dot(l0, l1, c)
ProjDen(l0, l1) == Dist2(l0, l1)
Eligible(l0, l1, c) == ProjNum(l0, l1, c) > 0 /\ ProjNum(l0, l1, c) < ProjDen(l0, l1)
\* d2 of line k is below d2 of line m (both eligible)
Nearer(xy, k, m, c) ==
    Cross(xy[k], xy[k + 1], c) * Cross(xy[k], xy[k + 1], c) * ProjDen(xy[m], xy[m + 1])
      < Cross(xy[m], xy[m + 1], c) * Cross(xy[m], xy[m + 1], c) * ProjDen(xy[k], xy[k + 1])
\* a line of zero length makes d2 not-a-number, which np.argmin returns
HasNaN(xy) == \E k \in 1..(Len(xy) - 1) : xy[k] = xy[k + 1]
EligibleLines(xy, c) == {k \in 1..(Len(xy) - 1) : Eligible(xy[k], xy[k + 1], c)}
\* np.argmin(d2) for a chain with an eligible line: the first nearest line
BestLine(xy, c) ==
    CHOOSE k \in EligibleLines(xy, c) : \A m \in EligibleLines(xy, c) :
        Nearer(xy, k, m, c) \/ (~Nearer(xy, m, k, c) /\ k <= m)
\* l0 + proj * v, kept to 1/Scale pixel
Projection(l0, l1, c) ==
    <<l0[1] + RoundDiv(ProjNum(l0, l1, c) * (l1[1] - l0[1]), ProjDen(l0, l1)),
      l0[2] + RoundDiv(ProjNum(l0, l1, c) * (l1[2] - l0[2]), ProjDen(l0, l1))>>

\* the (best_artist, best_index) the loop of add_control_point can end with,
\* one per order in which the dictionary may yield the artists
NearestLines(s, c) ==
    Bind({a \in Live(s) : ~HasNaN(s.artists[a].xy)
                            /\ EligibleLines(s.artists[a].xy, c) # {}}, LAMBDA cand :
    Bind([a \in cand |-> BestLine(s.artists[a].xy, c)], LAMBDA B :
    \* d2 of the best line of each chain, as the fraction num / den
    Bind([a \in cand |->
            [num |-> Cross(s.artists[a].xy[B[a]], s.artists[a].xy[B[a] + 1], c)
                       * Cross(s.artists[a].xy[B[a]], s.artists[a].xy[B[a] + 1], c),
             den |-> ProjDen(s.artists[a].xy[B[a]], s.artists[a].xy[B[a] + 1])]],
         LAMBDA d2 :
    Bind({a \in cand : \A b \in cand :
             ~(d2[b].num * d2[a].den < d2[a].num * d2[b].den)}, LAMBDA best :
        IF best = {} THEN {<<NoArtist, NoIndex>>}
        ELSE {<<a, B[a] - 1>> : a \in best}))))

add_control_point(s, c, near) ==
    IF Live(s) = {} \/ near[1] = NoArtist THEN s
    ELSE LET me == s.artists[near[1]]
             best_index == near[2]
             new_pt == Projection(me.xy[best_index + 1], me.xy[best_index + 2], c)
             l == Slice(me.xy, 0, best_index + 1) \o <<new_pt>>
                    \o Slice(me.xy, best_index + 1, Len(me.xy))
         IN SetArtist(s, near[1], [me EXCEPT !.xy = l, !.edited = TRUE, !.dtype = "float"])

\* mutant of delete_control_point: a chain of 4 points is removed as well
delete_control_point_below_five(s, pick) ==
    IF pick[1] = NoArtist THEN s
    ELSE LET me == s.artists[pick[1]]
             l == me.xy
         IN IF Len(l) < 5 THEN DelArtists(s, {pick[1]})
            ELSE SetArtist(s, pick[1],
                     [me EXCEPT !.xy = Slice(l, 0, pick[2]) \o Slice(l, pick[2] + 1, Len(l)),
                                !.edited = TRUE, !.dtype = "float"])

delete_control_point(s, pick) ==
    IF pick[1] = NoArtist THEN s
    ELSE LET me == s.artists[pick[1]]
             l == me.xy
         IN IF Len(l) < 4 THEN DelArtists(s, {pick[1]})
            ELSE SetArtist(s, pick[1],
                     [me EXCEPT !.xy = Slice(l, 0, pick[2]) \o Slice(l, pick[2] + 1, Len(l)),
                                !.edited = TRUE, !.dtype = "float"])

\* 1000 * cos and 1000 * sin of 2 pi k / 12, k = 0..12
Cos1000 == <<1000, 866, 500, 0, -500, -866, -1000, -866, -500, 0, 500, 866, 1000>>
Sin1000 == <<0, 500, 866, 1000, 866, 500, 0, -500, -866, -1000, -866, -500, 0>>

\* the polygon of new_object around the cursor c, after its three clamps
NewPolygon(c) ==
    [k \in 1..(NSides + 1) |->
        LET x == RoundDiv(Radius * Scale * Cos1000[k], 1000) + c[1]
            y == RoundDiv(Radius * Scale * Sin1000[k], 1000) + c[2]
        IN <<IF x < 0 THEN 0 ELSE IF x >= Scale * W THEN Scale * (W - 1) ELSE x,
             IF y >= Scale * H THEN Scale * (H - 1) ELSE y>>]

new_object(s, c) ==
    LET object_number == Len(s.to_keep)
    IN Then(Then(init_labels(GrowKeep(s)),
            LAMBDA t : AddArtist(t, [label |-> object_number, edited |-> TRUE,
                                     outside |-> TRUE, xy |-> NewPolygon(c),
                                     dtype |-> "float"])),
            LAMBDA t : display(t))

EmptyArtists == [a \in {} |-> NoArtist]
\* mutant of remove_artists: the chains are closed, edited ones into the labels
remove_artists_closing(s) ==
    [CloseAll(s, SortedSeq(LabelsOf(s)), 1) EXCEPT !.artists = EmptyArtists]

remove_artists(s) == [s EXCEPT !.artists = EmptyArtists]

on_key_down(s, key, c, pick, near) ==
    IF s.mode = NORMAL_MODE
    THEN CASE key = "j" -> join_objects(s)
           [] key = "c" -> convex_hull(s)
           [] key = "a" -> add_control_point(s, c, near)
           [] key = "d" -> delete_control_point(s, pick)
           [] key = "n" -> new_object(s, c)
           [] key = "s" -> enter_split_mode(s)
           [] key = "escape" -> remove_artists(s)
           [] OTHER -> s
    ELSE IF key = "escape" THEN exit_split_mode(s)
    ELSE s

----------------------------------------------------------------------------
(* The buttons *)

on_keep(s) == display([s EXCEPT !.to_keep = [k \in 1..Len(@) |-> IF k = 1 THEN @[k] ELSE TRUE]])
on_remove(s) == display([s EXCEPT !.to_keep = [k \in 1..Len(@) |-> IF k = 1 THEN @[k] ELSE FALSE]])
on_toggle(s) == display([s EXCEPT !.to_keep = [k \in 1..Len(@) |-> IF k = 1 THEN @[k] ELSE ~@[k]]])

\* mutant of on_reset: self.labels = self.orig_labels, without the copy
on_reset_without_copy(s) ==
    Then(init_labels([s EXCEPT !.labels = s.orig_labels, !.labels_is_orig = TRUE,
                               !.artists = EmptyArtists]),
         LAMBDA t : display(t))

on_reset(s) ==
    Then(init_labels([BindLabels(s, s.orig_labels) EXCEPT !.artists = EmptyArtists]),
         LAMBDA t : display(t))

----------------------------------------------------------------------------
(* EditObjectsManually.run after filter_objects has returned *)

\* mutant of Renumbered: np.arange(object_count), numbering from 0
RenumberedFromZero(filtered_labels) ==
    Bind(SortedSeq(LabelsIn(filtered_labels)), LAMBDA unique_labels :
        [p \in Pixels |->
            IF filtered_labels[p] \in Range(unique_labels)
            THEN (CHOOSE n \in 1..Len(unique_labels) :
                     unique_labels[n] = filtered_labels[p]) - 1
            ELSE 0])

\* mapping[unique_labels] = np.arange(1, object_count + 1);
\* filtered_labels = mapping[filtered_labels]
Renumbered(filtered_labels) ==
    Bind(SortedSeq(LabelsIn(filtered_labels)), LAMBDA unique_labels :
    Bind([v \in 0..SetMax(Range(unique_labels) \cup {0}) |->
             IF v \in Range(unique_labels)
             THEN CHOOSE n \in 1..Len(unique_labels) : unique_labels[n] = v
             ELSE 0], LAMBDA mapping :
        [p \in Pixels |-> mapping[filtered_labels[p]]]))

RunResult(filtered_labels, choice) ==
    IF choice = R_RENUMBER THEN Renumbered(filtered_labels) ELSE filtered_labels

----------------------------------------------------------------------------
(* Inputs *)

\* label matrices the caller may pass, as rows; pixels beyond the rows are 0
Blobs == << <<1, 1, 0, 2>>,
            <<1, 1, 0, 2>>,
            <<3, 3, 0, 0>> >>
Ring == << <<1, 1, 1, 1>>,
           <<1, 0, 0, 1>>,
           <<1, 1, 1, 1>> >>
Blank == << <<0>> >>

Matrix(rows) ==
    [p \in Pixels |->
        IF p[1] < Len(rows) /\ p[2] < Len(rows[p[1] + 1])
        THEN rows[p[1] + 1][p[2] + 1] ELSE 0]

GivenLabels == {Matrix(Blobs), Matrix(Ring), Matrix(Blank)}

\* cursor positions of the events, in data coordinates (1/Scale pixel)
Cursors == {<<0, 0>>, <<1, 1>>, <<2, 2>>, <<4, 2>>, <<6, 0>>, <<0, 4>>}
Axes == {"orig", "keep", "remove", "info"}
Buttons == {1, 3}
Keys == {"j", "c", "a", "d", "n", "s", "escape"}

----------------------------------------------------------------------------
(* The state machine *)

\* the dialog after a handler has left it as s
Becomes(s) ==
    /\ orig_labels' = s.orig_labels
    /\ labels' = s.labels
    /\ labels_is_orig' = s.labels_is_orig
    /\ to_keep' = s.to_keep
    /\ artists' = s.artists
    /\ active_artist' = s.active_artist
    /\ active_index' = s.active_index
    /\ mode' = s.mode
    /\ split_artist' = s.split_artist
    /\ split_pick_artist' = s.split_pick_artist
    /\ split_pick_index' = s.split_pick_index
    /\ colormap_len' = s.colormap_len
    /\ ol' = s.ol
    /\ exc' = s.exc
    /\ Len(s.to_keep) > Len(to_keep) => allocated < MaxNew
    /\ allocated' = IF Len(s.to_keep) > Len(to_keep) THEN allocated + 1 ELSE allocated

\* an event is delivered to the open dialog; steps is the number of events the
\* session may still deliver
Handled(name) ==
    /\ dialog = "open"
    /\ steps > 0
    /\ steps' = steps - 1
    /\ last' = name
    /\ UNCHANGED <<dialog, renumber_choice, run_state, object_set, given_labels,
                   probe, answer>>

\* FilterObjectsDialog.__init__ on the labels run() passes
Constructed(matrices, budget) ==
    /\ given_labels \in matrices
    /\ orig_labels = given_labels
    /\ labels = given_labels
    /\ labels_is_orig = FALSE
    /\ to_keep = [k \in 1..(SetMax(LabelsIn(given_labels) \cup {0}) + 1) |-> TRUE]
    /\ artists = EmptyArtists
    /\ active_artist = NoArtist
    /\ active_index = NoIndex
    /\ mode = NORMAL_MODE
    /\ split_artist = <<>>
    /\ split_pick_artist = NoArtist
    /\ split_pick_index = NoIndex
    /\ colormap_len = Len(to_keep)
    /\ ol = LabelsIn(given_labels)
    /\ exc = NoExc
    /\ dialog = "open"
    /\ renumber_choice \in {R_RENUMBER, R_RETAIN}
    /\ run_state = "editing"
    /\ object_set = <<>>
    /\ last = "init"
    /\ allocated = 0
    /\ steps = budget

Init ==
    /\ Constructed(GivenLabels, MaxSteps)
    /\ probe = NoProbe
    /\ answer = NoAnswer

\* a mouse button pressed with the cursor at c of the panel inaxes
OnClick(inaxes) ==
    /\ Handled("click")
    /\ \E c \in Cursors :
         \E pick \in get_control_point(Self, c), first \in FirstContaining(Self, c) :
           \E button \in Buttons :
             \E t \in {on_click(Self, [inaxes |-> inaxes, button |-> button, c |-> c],
                                 pick, first)} :
                 Becomes(t)

ClickOrig == OnClick("orig")
ClickKeep == OnClick("keep")
ClickRemove == OnClick("remove")
ClickElsewhere == OnClick("info")

OnMouseButtonUp ==
    /\ Handled("release")
    /\ \E t \in {on_mouse_button_up(Self)} : Becomes(t)

OnMouseMoved ==
    /\ Handled("motion")
    /\ \E inaxes \in {"orig", "keep"}, c \in Cursors :
         \E pick \in get_control_point(Self, c) :
           \E t \in {on_mouse_moved(Self, [inaxes |-> inaxes, c |-> c], pick)} :
               Becomes(t)

\* the cursor positions that tell presses of a key apart: only add_control_point,
\* delete_control_point and new_object read the event's position
KeyCursors(key) == IF key \in {"a", "d", "n"} THEN Cursors ELSE {<<0, 0>>}

\* a key pressed with the cursor at c in the original panel
OnKeyDown(key) ==
    /\ Handled(key)
    /\ \E c \in KeyCursors(key) :
         \E pick \in get_control_point(Self, c), near \in NearestLines(Self, c) :
           \E t \in {on_key_down(Self, key, c, pick, near)} :
               Becomes(t)

KeyJ == OnKeyDown("j")
KeyC == OnKeyDown("c")
KeyA == OnKeyDown("a")
KeyD == OnKeyDown("d")
KeyN == OnKeyDown("n")
KeyS == OnKeyDown("s")
KeyEscape == OnKeyDown("escape")

OnKeep == Handled("keep_all") /\ \E t \in {on_keep(Self)} : Becomes(t)
OnRemove == Handled("remove_all") /\ \E t \in {on_remove(Self)} : Becomes(t)
OnToggle == Handled("reverse") /\ \E t \in {on_toggle(Self)} : Becomes(t)
OnReset == Handled("reset") /\ \E t \in {on_reset(Self)} : Becomes(t)

Unedited ==
    UNCHANGED <<orig_labels, labels, labels_is_orig, to_keep, artists, active_artist,
                active_index, mode, split_artist, split_pick_artist, split_pick_index,
                colormap_len, ol, exc, renumber_choice, given_labels, allocated, steps,
                probe, answer>>

\* Done: EndModal(wx.OK); filter_objects returns dialog_box.labels and run()
\* numbers the objects and adds them to the workspace
OnResume ==
    /\ dialog = "open"
    /\ dialog' = "ok"
    /\ run_state' = "returned"
    /\ object_set' = <<RunResult(labels, renumber_choice)>>
    /\ last' = "done"
    /\ Unedited

\* mutant of OnCancel: the result of ShowModal is not looked at
OnCancelUnchecked ==
    /\ dialog = "open"
    /\ dialog' = "cancel"
    /\ run_state' = "returned"
    /\ object_set' = <<RunResult(labels, renumber_choice)>>
    /\ last' = "cancel"
    /\ Unedited

\* Cancel: EndModal(wx.CANCEL); filter_objects raises RuntimeError out of run()
OnCancel ==
    /\ dialog = "open"
    /\ dialog' = "cancel"
    /\ run_state' = "raised"
    /\ object_set' = object_set
    /\ last' = "cancel"
    /\ Unedited

Next ==
    \/ ClickOrig
    \/ ClickKeep
    \/ ClickRemove
    \/ ClickElsewhere
    \/ OnMouseButtonUp
    \/ OnMouseMoved
    \/ KeyJ
    \/ KeyC
    \/ KeyA
    \/ KeyD
    \/ KeyN
    \/ KeyS
    \/ KeyEscape
    \/ OnKeep
    \/ OnRemove
    \/ OnToggle
    \/ OnReset
    \/ OnResume
    \/ OnCancel

Spec == Init /\ [][Next]_vars

----------------------------------------------------------------------------
(* A session of the split tool alone: clicks and motion in the original
   panel, S and Escape *)

SplitInit ==
    /\ Constructed({Matrix(Blobs), Matrix(Ring)}, SplitSteps)
    /\ probe = NoProbe
    /\ answer = NoAnswer

SplitNext ==
    \/ ClickOrig
    \/ OnMouseMoved
    \/ KeyS
    \/ KeyEscape

SplitSpec == SplitInit /\ [][SplitNext]_vars

----------------------------------------------------------------------------
(* ok_to_split on its own: the same-chain test for every pair of vertex
   indexes get_control_point can return on a chain of up to MaxVertices
   vertices *)

IndexPairs ==
    {[n_xdata |-> n + 1, pick_index |-> i, split_index |-> j] :
        n \in 3..MaxVertices, i \in 0..(MaxVertices - 1), j \in 0..(MaxVertices - 1)}

OkInit ==
    /\ Constructed({Matrix(Blank)}, 0)
    /\ probe \in {pr \in IndexPairs : pr.pick_index < pr.n_xdata - 1
                                      /\ pr.split_index < pr.n_xdata - 1}
    /\ answer = NoAnswer

AskOkToSplit ==
    /\ answer = NoAnswer
    /\ answer' = <<SameChainOk(probe.n_xdata, probe.pick_index, probe.split_index)>>
    /\ UNCHANGED <<orig_labels, labels, labels_is_orig, to_keep, artists, active_artist,
                   active_index, mode, split_artist, split_pick_artist,
                   split_pick_index, colormap_len, ol, exc, dialog, renumber_choice,
                   run_state, object_set, given_labels, last, allocated, steps, probe>>

OkNext == AskOkToSplit

OkSpec == OkInit /\ [][OkNext]_vars

----------------------------------------------------------------------------
(* ok_to_split on two different chains: the first pick is on chain 1, the
   second on chain 2; each chain has a label and is an outside or a hole chain *)

\* most object numbers the two chains are drawn from
MaxLabel == 3

\* a closed chain of four vertices
SquareChain == << <<0, 0>>, <<2, 0>>, <<2, 2>>, <<0, 2>>, <<0, 0>> >>

ChainKinds == {[label |-> l, outside |-> o] : l \in 1..MaxLabel, o \in BOOLEAN}

TwoChains ==
    {[first |-> f, second |-> g, pick_index |-> i, split_index |-> j] :
        f \in ChainKinds, g \in ChainKinds, i \in 0..3, j \in 0..3}

\* the dialog holding the two chains of the probe, the first pick recorded
ProbeDialog ==
    [Self EXCEPT
        !.artists = [a \in {1, 2} |->
                        [label |-> IF a = 1 THEN probe.first.label ELSE probe.second.label,
                         edited |-> FALSE,
                         outside |-> IF a = 1 THEN probe.first.outside
                                     ELSE probe.second.outside,
                         xy |-> SquareChain, dtype |-> "int"]],
        !.split_pick_artist = 1,
        !.split_pick_index = probe.split_index,
        !.mode = SPLIT_PICK_SECOND_MODE]

ChainsInit ==
    /\ Constructed({Matrix(Blank)}, 0)
    /\ probe \in TwoChains
    /\ answer = NoAnswer

AskOtherChain ==
    /\ answer = NoAnswer
    /\ answer' = <<ok_to_split(ProbeDialog, 2, probe.pick_index)>>
    /\ UNCHANGED <<orig_labels, labels, labels_is_orig, to_keep, artists, active_artist,
                   active_index, mode, split_artist, split_pick_artist,
                   split_pick_index, colormap_len, ol, exc, dialog, renumber_choice,
                   run_state, object_set, given_labels, last, allocated, steps, probe>>

ChainsNext == AskOtherChain

ChainsSpec == ChainsInit /\ [][ChainsNext]_vars

----------------------------------------------------------------------------
(* A longer session of few tools: right clicks in the original panel (which
   open and close objects, and pick in split mode), J, S and Reset *)

\* number of events such a session handles
LongSteps == 7

\* the right mouse button pressed in the original panel
RightClickOrig ==
    /\ Handled("click")
    /\ \E c \in Cursors :
         \E pick \in get_control_point(Self, c), first \in FirstContaining(Self, c) :
           \E t \in {on_click(Self, [inaxes |-> "orig", button |-> 3, c |-> c],
                               pick, first)} :
               Becomes(t)

LongInit ==
    /\ Constructed({Matrix(Blobs)}, LongSteps)
    /\ probe = NoProbe
    /\ answer = NoAnswer

LongNext ==
    \/ RightClickOrig
    \/ KeyJ
    \/ KeyS
    \/ OnReset

LongSpec == LongInit /\ [][LongNext]_vars

----------------------------------------------------------------------------
(* A longer session of editing: right clicks in the original panel, J, D and
   Reset *)

\* number of events such a session handles
EditSteps == 6

EditInit ==
    /\ Constructed({Matrix(Blobs)}, EditSteps)
    /\ probe = NoProbe
    /\ answer = NoAnswer

EditNext ==
    \/ RightClickOrig
    \/ KeyJ
    \/ KeyD
    \/ OnReset

EditSpec == EditInit /\ [][EditNext]_vars

----------------------------------------------------------------------------
(* make_control_points on its own: every label matrix holding one object
   number is traced, and the walk of lines 1190-1222 is applied to strips
   longer than the image, which give chains long enough to be decimated *)

\* most pixels of a strip
MaxStrip == 110

\* the label matrices whose only object number is 1
ObjectMatrices ==
    {[p \in Pixels |-> IF p \in mask THEN 1 ELSE 0] : mask \in SUBSET Pixels}

\* a component of one row and n columns
Strip(n) == {<<0, j>> : j \in 0..(n - 1)}

TraceInit ==
    /\ Constructed(ObjectMatrices, 0)
    /\ probe = NoProbe
    /\ answer = NoAnswer

\* make_control_points(1) on the dialog as constructed
TraceObject ==
    /\ last = "init"
    /\ last' = "trace"
    /\ \E t \in {make_control_points(Self, 1)} : Becomes(t)
    /\ UNCHANGED <<dialog, renumber_choice, run_state, object_set, given_labels,
                   steps, probe, answer>>

\* the walk, the winding and the decimation for a strip of either polarity
TraceStrip ==
    /\ last = "init"
    /\ LabelsIn(labels) = {}
    /\ last' = "strip"
    /\ \E n \in 2..MaxStrip, polarity \in BOOLEAN :
         /\ probe' = [n |-> n, polarity |-> polarity]
         /\ answer' = <<TraceComponent(Strip(n), polarity)>>
    /\ UNCHANGED <<orig_labels, labels, labels_is_orig, to_keep, artists, active_artist,
                   active_index, mode, split_artist, split_pick_artist,
                   split_pick_index, colormap_len, ol, exc, dialog, renumber_choice,
                   run_state, object_set, given_labels, allocated, steps>>

TraceNext ==
    \/ TraceObject
    \/ TraceStrip

TraceSpec == TraceInit /\ [][TraceNext]_vars

----------------------------------------------------------------------------
(* get_control_point on its own: up to two live chains of two vertices each,
   the vertices and the cursor on a row of half pixels *)

\* the vertices and the cursor lie at x = 0..MaxSpan half pixels
MaxSpan == 4

\* a closed chain through the points at x = p and x = q of the row
RowChain(p, q) ==
    [label |-> 1, edited |-> FALSE, outside |-> TRUE,
     xy |-> << <<p, 0>>, <<q, 0>>, <<p, 0>> >>, dtype |-> "float"]

RowChains == {RowChain(p, q) : p \in 0..MaxSpan, q \in 0..MaxSpan}

\* self.artists of the probe: no chain, one chain or two
HitArtists ==
    {EmptyArtists} \cup {[a \in {1} |-> ch] : ch \in RowChains}
        \cup {[a \in {1, 2} |-> IF a = 1 THEN ch ELSE other] :
                 ch \in RowChains, other \in RowChains}

\* the dialog holding the chains of the probe
HitDialog == [Self EXCEPT !.artists = probe.artists]

HitInit ==
    /\ Constructed({Matrix(Blank)}, 0)
    /\ probe \in {[artists |-> as, c |-> <<x, 0>>] : as \in HitArtists, x \in 0..MaxSpan}
    /\ answer = NoAnswer

\* get_control_point(event): answer holds the results it can return, one per
\* order in which self.artists may yield the chains
AskControlPoint ==
    /\ answer = NoAnswer
    /\ answer' = <<get_control_point(HitDialog, probe.c)>>
    /\ UNCHANGED <<orig_labels, labels, labels_is_orig, to_keep, artists, active_artist,
                   active_index, mode, split_artist, split_pick_artist,
                   split_pick_index, colormap_len, ol, exc, dialog, renumber_choice,
                   run_state, object_set, given_labels, last, allocated, steps, probe>>

HitNext == AskControlPoint

HitSpec == HitInit /\ [][HitNext]_vars

----------------------------------------------------------------------------
(* The neighbour engine (MeasureObjectNeighbors).  Its objects are given as a
   sequence of pixel sets, element k the pixels of object number k, empty for
   a number without pixels. *)

\* the label matrix has GridSize rows and GridSize columns
GridSize == 10
\* largest distance of the mode within(D)
MaxDistance == 5

D_ADJACENT == "Adjacent"
D_WITHIN == "Within"

GridPixels == {<<i, j>> : i \in 0..(GridSize - 1), j \in 0..(GridSize - 1)}

\* one dilation by the 3 x 3 structuring element, capped by the matrix extent
Dilate8(S) == {<<q[1] + a, q[2] + b>> : q \in S, a \in -1..1, b \in -1..1} \cap GridPixels

RECURSIVE DilateTimes(_, _)
DilateTimes(S, n) == IF n = 0 THEN S ELSE DilateTimes(Dilate8(S), n - 1)

\* the candidate region of an object: its footprint, dilated D times for within(D)
CandidateRegion(S, method, distance) ==
    IF method = D_WITHIN THEN DilateTimes(S, distance) ELSE S

\* the objects whose candidate region meets that of object a
NeighborsOf(objects, a, method, distance) ==
    {b \in DOMAIN objects \ {a} :
        CandidateRegion(objects[a], method, distance)
            \cap CandidateRegion(objects[b], method, distance) # {}}

\* the pixels of an object with a 4-neighbour outside it
PerimeterPixels(S) ==
    {p \in S : \E d \in {<<-1, 0>>, <<1, 0>>, <<0, -1>>, <<0, 1>>} :
                  <<p[1] + d[1], p[2] + d[2]>> \notin S}

\* the share of the object's perimeter pixels inside the candidate region of
\* a neighbour, in percent; 0 for an object without perimeter pixels
PercentTouching(objects, a, method, distance) ==
    LET perimeter == PerimeterPixels(objects[a])
        touching == {p \in perimeter :
                        \E b \in NeighborsOf(objects, a, method, distance) :
                            p \in CandidateRegion(objects[b], method, distance)}
    IN IF perimeter = {} THEN 0
       ELSE (100 * Cardinality(touching)) \div Cardinality(perimeter)

RECURSIVE SumOver(_, _)
SumOver(S, k) ==
    IF S = {} THEN 0
    ELSE LET p == CHOOSE q \in S : TRUE IN p[k] + SumOver(S \ {p}, k)

\* the squared distance of the centroids of A and B, times (|A| |B|)^2
CentroidDistance2(A, B) ==
    LET di == SumOver(A, 1) * Cardinality(B) - SumOver(B, 1) * Cardinality(A)
        dj == SumOver(A, 2) * Cardinality(B) - SumOver(B, 2) * Cardinality(A)
    IN di * di + dj * dj

\* b is at least as near to a as c is; of two equally near, the lower number
Closer(objects, a, b, c) ==
    LET db == CentroidDistance2(objects[a], objects[b]) * Cardinality(objects[c])
                  * Cardinality(objects[c])
        dc == CentroidDistance2(objects[a], objects[c]) * Cardinality(objects[b])
                  * Cardinality(objects[b])
    IN db < dc \/ (db = dc /\ b <= c)

\* the number of the nearest neighbour, 0 for an object without neighbours
FirstClosestObjectNumber(objects, a, method, distance) ==
    LET near == NeighborsOf(objects, a, method, distance)
    IN IF near = {} THEN 0
       ELSE CHOOSE b \in near : \A c \in near : Closer(objects, a, b, c)

\* mutant of MeasurementRows: one row per object that has pixels
MeasurementRowsOfPresent(objects, method, distance) ==
    LET present == SelectSeq([k \in DOMAIN objects |-> k], LAMBDA k : objects[k] # {})
    IN [n \in DOMAIN present |->
           [NumberOfNeighbors |->
                Cardinality(NeighborsOf(objects, present[n], method, distance)),
            PercentTouching |-> PercentTouching(objects, present[n], method, distance),
            FirstClosestObjectNumber |->
                FirstClosestObjectNumber(objects, present[n], method, distance)]]

\* the measurements of a run: one row per object number
MeasurementRows(objects, method, distance) ==
    [a \in DOMAIN objects |->
        [NumberOfNeighbors |-> Cardinality(NeighborsOf(objects, a, method, distance)),
         PercentTouching |-> PercentTouching(objects, a, method, distance),
         FirstClosestObjectNumber |->
             FirstClosestObjectNumber(objects, a, method, distance)]]

\* the label matrices of the probes: one pixel at (2, 2) labelled 1 and one
\* other pixel labelled 2 or 3
TwoPixelObjects ==
    {[k \in 1..n |-> IF k = 1 THEN {<<2, 2>>} ELSE IF k = n THEN {q} ELSE {}] :
        n \in 2..3, q \in GridPixels \ {<<2, 2>>}}

NeighborsInit ==
    /\ Constructed({Matrix(Blank)}, 0)
    /\ probe \in {[objects |-> o, method |-> D_WITHIN, distance |-> d] :
                     o \in TwoPixelObjects, d \in 0..MaxDistance}
                 \cup {[objects |-> o, method |-> D_ADJACENT, distance |-> 0] :
                          o \in TwoPixelObjects}
    /\ answer = NoAnswer

\* MeasureObjectNeighbors.run on the label matrix of the probe
MeasureNeighbors ==
    /\ answer = NoAnswer
    /\ answer' = <<MeasurementRows(probe.objects, probe.method, probe.distance)>>
    /\ UNCHANGED <<orig_labels, labels, labels_is_orig, to_keep, artists, active_artist,
                   active_index, mode, split_artist, split_pick_artist,
                   split_pick_index, colormap_len, ol, exc, dialog, renumber_choice,
                   run_state, object_set, given_labels, last, allocated, steps, probe>>

NeighborsNext == MeasureNeighbors

NeighborsSpec == NeighborsInit /\ [][NeighborsNext]_vars

----------------------------------------------------------------------------
(* Properties *)

\* the pixels of object k in the label matrix m
Footprint(m, k) == {p \in Pixels : m[p] = k}

\* the clicks a panel can receive
Clicks(inaxes) ==
    {[inaxes |-> inaxes, button |-> button, c |-> c] : button \in Buttons, c \in Cursors}

NoPick == <<NoArtist, NoIndex>>

\* the dialog after a key whose handler does not read the cursor
Pressed(key) == on_key_down(Self, key, <<0, 0>>, NoPick, NoPick)

\* C1: when the session ends with Done, no pixel of the label matrix that
\* filter_objects returns carries an object number whose to_keep entry is
\* False.
RemovedObjectsAbsent ==
    dialog = "ok" =>
        \A p \in Pixels :
            labels[p] \in 1..(Len(to_keep) - 1) => KeepAt(to_keep, labels[p])

\* C2: with Retain, after Done every object of the output whose pixels are
\* those of an object of the original matrix has that object's number.
RetainKeepsNumbers ==
    (dialog = "ok" /\ renumber_choice = R_RETAIN) =>
        \A k \in LabelsIn(given_labels), m \in LabelsIn(object_set[1]) :
            Footprint(object_set[1], m) = Footprint(given_labels, k) => m = k

\* C3: with Renumber, the numbers of the matrix run() adds are exactly 1..N, N
\* the number of distinct non-zero labels the session produced; background
\* stays background, every object keeps its pixels (so its pixel count), and
\* the order of the numbers is kept.
RenumberIsConsecutive ==
    (dialog = "ok" /\ renumber_choice = R_RENUMBER) =>
        /\ LabelsIn(object_set[1]) = 1..Cardinality(LabelsIn(labels))
        /\ \A p \in Pixels : (object_set[1][p] = 0) <=> (labels[p] = 0)
        /\ \A p \in Pixels :
              Cardinality(Footprint(object_set[1], object_set[1][p]))
                  = Cardinality(Footprint(labels, labels[p]))
        /\ \A p, q \in Pixels :
              /\ (labels[p] = labels[q]) <=> (object_set[1][p] = object_set[1][q])
              /\ labels[p] < labels[q] => object_set[1][p] < object_set[1][q]

\* C3 witness: Done with Renumber on a matrix whose numbering has a gap
RenumberedWithGap ==
    /\ dialog = "ok"
    /\ renumber_choice = R_RENUMBER
    /\ \E k \in LabelsIn(labels) : \E j \in 1..(k - 1) : j \notin LabelsIn(labels)

OriginalUntouched == orig_labels = given_labels

\* C5 witness: a handler has written its edit into the working label matrix
WorkingCopyChanged == dialog = "open" /\ last # "init" /\ labels # given_labels

\* C6: in split-pick-second mode, a click in the original panel that hits no
\* vertex, or whose pick ok_to_split refuses, leaves the whole dialog as it was
\* and raises nothing.
IllegalSecondPickRejected ==
    (dialog = "open" /\ mode = SPLIT_PICK_SECOND_MODE
                     /\ split_pick_artist \in DOMAIN artists) =>
        \A ev \in Clicks("orig") :
            \A pick \in get_control_point(Self, ev.c), first \in FirstContaining(Self, ev.c) :
                (pick[1] = NoArtist \/ ~ok_to_split(Self, pick[1], pick[2]))
                    => on_click(Self, ev, pick, first) = Self

\* a click, in any panel, that hits no vertex leaves the whole dialog as it was
MissedClickIgnored ==
    \A inaxes \in Axes : \A ev \in Clicks(inaxes) :
        NoPick \in get_control_point(Self, ev.c) =>
            \A first \in FirstContaining(Self, ev.c) :
                on_click(Self, ev, NoPick, first) = Self

\* the step is a click in split-pick-first mode on a vertex of a live chain,
\* which records the pick and starts the preview segment at that vertex
EnteredByFirstPick ==
    /\ mode = SPLIT_PICK_FIRST_MODE
    /\ last' = "click"
    /\ \E c \in Cursors :
          <<split_pick_artist', split_pick_index'>> \in get_control_point(Self, c)
    /\ split_pick_artist' \in DOMAIN artists
    /\ split_pick_index' \in 0..(Len(artists[split_pick_artist'].xy) - 2)
    /\ Len(split_artist') = 1
    /\ split_artist'[1].xy = <<artists[split_pick_artist'].xy[split_pick_index' + 1],
                               artists[split_pick_artist'].xy[split_pick_index' + 1]>>
    /\ UNCHANGED <<artists, labels, to_keep>>

\* C7: the mode is always normal, split-pick-first or split-pick-second;
\* split-pick-second is entered only from split-pick-first, by a click that
\* hits a vertex of a live chain, records it and starts the preview segment;
\* a click in split-pick-first that hits no vertex changes nothing.
ModeProtocol ==
    /\ [](mode \in {NORMAL_MODE, SPLIT_PICK_FIRST_MODE, SPLIT_PICK_SECOND_MODE})
    /\ []((dialog = "open" /\ mode = SPLIT_PICK_FIRST_MODE) => MissedClickIgnored)
    /\ [][(mode # SPLIT_PICK_SECOND_MODE /\ mode' = SPLIT_PICK_SECOND_MODE)
              => EnteredByFirstPick]_vars

\* C7 witness: a click has just recorded the first pick
SecondPickAwaited ==
    /\ mode = SPLIT_PICK_SECOND_MODE
    /\ last = "click"
    /\ split_pick_artist \in DOMAIN artists
    /\ split_artist # <<>>

\* C8 as stated: pressing S while no chain is live, or while the mode is not
\* normal, leaves the mode and the rest of the dialog unchanged.
SplitNeedsLiveChain ==
    (dialog = "open" /\ (mode # NORMAL_MODE \/ artists = EmptyArtists)) =>
        Pressed("s") = Self

\* C8 amended: pressing S in normal mode sets the mode to split-pick-first and
\* changes nothing else, whether or not a chain is live; in the other modes it
\* changes nothing.
SplitEntersFromNormal ==
    dialog = "open" =>
        Pressed("s") = IF mode = NORMAL_MODE
                       THEN [Self EXCEPT !.mode = SPLIT_PICK_FIRST_MODE]
                       ELSE Self

\* C8 witness: S has just entered split-pick-first with no chain live
SplitModeWithoutChains ==
    /\ last = "s"
    /\ mode = SPLIT_PICK_FIRST_MODE
    /\ artists = EmptyArtists

\* C9: Escape in split-pick-first or split-pick-second sets the mode to normal
\* and leaves no preview segment, raises nothing and leaves chains, label
\* matrix and to_keep as they were; an S pressed next enters split-pick-first
\* with no preview segment.
EscapeLeavesSplitMode ==
    [][/\ (last' = "escape" /\ mode # NORMAL_MODE) =>
              /\ mode' = NORMAL_MODE
              /\ split_artist' = <<>>
              /\ exc' = NoExc
              /\ UNCHANGED <<artists, labels, to_keep>>
       /\ (last = "escape" /\ last' = "s") =>
              /\ mode' = SPLIT_PICK_FIRST_MODE
              /\ split_artist' = <<>>
              /\ exc' = NoExc]_vars

\* C9 witness: Escape has just been pressed after a first pick was recorded,
\* with the picked chain still live (Escape in normal mode removes every chain)
EscapedFromSecondPick ==
    /\ last = "escape"
    /\ mode = NORMAL_MODE
    /\ split_pick_artist \in DOMAIN artists
    /\ split_artist = <<>>

\* the distance between vertices i and j around a closed chain of n vertices
CyclicDistance(n, i, j) == Min2(Abs(i - j), n - Abs(i - j))

\* C10: for two picks on one chain of n vertices (n + 1 stored points),
\* ok_to_split accepts exactly when the indexes are at cyclic distance >= 2.
OkToSplitIsCyclicDistance ==
    answer # NoAnswer =>
        (answer[1] <=> CyclicDistance(probe.n_xdata - 1, probe.pick_index,
                                      probe.split_index) >= 2)

\* C10 witness: the first and the last vertex of a chain of more than three
\* vertices, adjacent across the wrap-around, were refused
WrapAroundRefused ==
    /\ answer = <<FALSE>>
    /\ probe.n_xdata > 4
    /\ probe.pick_index = 0
    /\ probe.split_index = probe.n_xdata - 2

\* C11: a second pick on another chain is accepted by ok_to_split exactly when
\* the two chains have the same object number and one is an outside chain and
\* the other a hole chain.
OtherChainNeedsOppositeSides ==
    (answer # NoAnswer /\ probe \in TwoChains) =>
        (answer[1] <=> (/\ probe.first.label = probe.second.label
                        /\ probe.first.outside # probe.second.outside))

\* C11 witness: two hole chains of one object were refused
HoleToHoleRefused ==
    /\ probe \in TwoChains
    /\ answer = <<FALSE>>
    /\ probe.first.label = probe.second.label
    /\ ~probe.first.outside /\ ~probe.second.outside

\* the clicks in the original panel that are legal second picks on the chain
\* of the first pick: <<event, pick>>
SameChainPicks ==
    UNION {{<<ev, pick>> : pick \in
               {q \in get_control_point(Self, ev.c) :
                   q[1] = split_pick_artist /\ ok_to_split(Self, q[1], q[2])}} :
           ev \in Clicks("orig")}

\* a closed chain of at least 3 vertices that has the points p and q
ClosedThrough(chain, p, q) ==
    /\ Len(chain) >= 4
    /\ chain[1] = chain[Len(chain)]
    /\ p \in Range(chain)
    /\ q \in Range(chain)

\* C12: a legal second pick on the chain of the first pick cuts it into two
\* closed chains, each through both picked vertices and of at least 3 vertices,
\* which together have every vertex of the chain; the new object number is the
\* previous length of to_keep and is the number of no pixel and of no chain;
\* to_keep grows by one True entry; the mode ends normal and nothing is raised.
SplitCutsChainInTwo ==
    (dialog = "open" /\ mode = SPLIT_PICK_SECOND_MODE
                     /\ split_pick_artist \in DOMAIN artists) =>
        \A x \in SameChainPicks :
            LET xy == artists[x[2][1]].xy
                idx0 == Min2(x[2][2], split_pick_index)
                idx1 == Max2(x[2][2], split_pick_index)
                xy0 == CutOuter(xy, idx0, idx1)
                xy1 == CutInner(xy, idx0, idx1)
                t == on_click(Self, x[1], x[2], NoArtist)
            IN /\ ClosedThrough(xy0, xy[idx0 + 1], xy[idx1 + 1])
               /\ ClosedThrough(xy1, xy[idx0 + 1], xy[idx1 + 1])
               /\ Len(xy0) + Len(xy1) = Len(xy) + 3
               /\ Range(xy0) \cup Range(xy1) = Range(xy)
               /\ Len(to_keep) \notin LabelsIn(labels)
               /\ Len(to_keep) \notin LabelsOf(Self)
               /\ t.to_keep = Append(to_keep, TRUE)
               /\ t.mode = NORMAL_MODE
               /\ t.exc = NoExc

\* the number of entries of to_keep at numpy indexes below k that stay
Rank(k, gone) == Cardinality({m \in 0..(k - 1) : m \notin gone})

\* C13: with chains of k >= 2 object numbers live, J gives every pixel of those
\* objects (as they are once their edited chains are closed) the lowest of the
\* numbers, takes the k - 1 other numbers out of to_keep and numbers the
\* remaining objects consecutively, and leaves only freshly traced, unedited
\* chains of the merged object; with fewer than 2 numbers J changes nothing.
JoinMergesIntoLowest ==
    (dialog = "open" /\ mode = NORMAL_MODE) =>
        LET ids == LabelsOf(Self)
            lowest == SetMin(ids)
            gone == ids \ {lowest}
            closed == CloseAll(Self, SortedSeq(ids), 1)
            t == Pressed("j")
        IN IF Cardinality(ids) < 2 THEN t = Self
           ELSE /\ t.exc = NoExc
                /\ \A p \in Pixels :
                      t.labels[p] = IF closed.labels[p] \in ids THEN lowest
                                    ELSE Rank(closed.labels[p], gone)
                /\ Len(t.to_keep) = Len(to_keep) - Cardinality(gone)
                /\ \A k \in 0..(Len(to_keep) - 1) :
                      k \notin gone => KeepAt(t.to_keep, Rank(k, gone)) = KeepAt(to_keep, k)
                /\ \A a \in DOMAIN t.artists :
                      t.artists[a].label = lowest /\ ~t.artists[a].edited
                /\ t.artists =
                      make_control_points([t EXCEPT !.artists = EmptyArtists], lowest).artists

\* the vertex hits D can make in the present state: <<cursor, pick>>
VertexHits ==
    UNION {{<<c, pick>> : pick \in {q \in get_control_point(Self, c) : q[1] # NoArtist}} :
           c \in Cursors}

\* the sequence s without its entry at numpy index k
Without(s, k) == [n \in 1..(Len(s) - 1) |-> IF n <= k THEN s[n] ELSE s[n + 1]]

\* C14 as stated: after D hits a vertex, its chain is gone or has lost that
\* vertex and still has at least 4 points.
DeleteKeepsFourPoints ==
    (dialog = "open" /\ mode = NORMAL_MODE) =>
        \A x \in VertexHits :
            LET t == on_key_down(Self, "d", x[1], x[2], NoPick)
            IN \/ x[2][1] \notin DOMAIN t.artists
               \/ /\ t.artists[x[2][1]].xy = Without(artists[x[2][1]].xy, x[2][2])
                  /\ Len(t.artists[x[2][1]].xy) >= 4

\* C14 amended: after D hits a vertex of a chain of at least 4 points, the
\* chain has lost that point and has at least 3 points left; a chain of fewer
\* than 4 points is removed; no other chain, no pixel and no to_keep entry
\* changes.
DeleteKeepsThreePoints ==
    (dialog = "open" /\ mode = NORMAL_MODE) =>
        \A x \in VertexHits :
            LET t == on_key_down(Self, "d", x[1], x[2], NoPick)
                a == x[2][1]
            IN /\ IF Len(artists[a].xy) < 4
                  THEN DOMAIN t.artists = DOMAIN artists \ {a}
                  ELSE /\ DOMAIN t.artists = DOMAIN artists
                       /\ t.artists[a].xy = Without(artists[a].xy, x[2][2])
                       /\ Len(t.artists[a].xy) >= 3
                       /\ t.artists[a].edited
               /\ \A b \in DOMAIN t.artists \ {a} : t.artists[b] = artists[b]
               /\ t.labels = labels
               /\ t.to_keep = to_keep
               /\ t.exc = NoExc

\* C14 witness: D has just left a live chain with 3 points
ChainLeftWithThreePoints ==
    /\ last = "d"
    /\ \E a \in DOMAIN artists : artists[a].edited /\ Len(artists[a].xy) = 3

\* the edges of the live chains on which the projection of the cursor c falls
\* strictly between the two ends: <<chain, index of the edge's first point>>
SpannedEdges(c) ==
    UNION {{<<a, k - 1>> : k \in {n \in 1..(Len(artists[a].xy) - 1) :
                                    /\ Dot(artists[a].xy[n], artists[a].xy[n + 1], c) > 0
                                    /\ Dot(artists[a].xy[n], artists[a].xy[n + 1], c)
                                         < Dist2(artists[a].xy[n], artists[a].xy[n + 1])}} :
           a \in DOMAIN artists}

\* the edge e is no farther from c than the edge f, by the squared
\* perpendicular distance Cross^2 / Dist2
NoFarther(e, f, c) ==
    LET e0 == artists[e[1]].xy[e[2] + 1]
        e1 == artists[e[1]].xy[e[2] + 2]
        f0 == artists[f[1]].xy[f[2] + 1]
        f1 == artists[f[1]].xy[f[2] + 2]
    IN Cross(e0, e1, c) * Cross(e0, e1, c) * Dist2(f0, f1)
         <= Cross(f0, f1, c) * Cross(f0, f1, c) * Dist2(e0, e1)

\* the sequence longer is the sequence shorter with one entry put in after its
\* k-th entry
InsertedAfter(longer, shorter, k) ==
    /\ Len(longer) = Len(shorter) + 1
    /\ \A n \in 1..Len(shorter) : shorter[n] = longer[IF n <= k THEN n ELSE n + 1]

\* C15: A either changes nothing, or puts one new point between two
\* consecutive points of one chain, on an edge that spans the cursor's
\* projection and is nearest the cursor among such edges, keeping the other
\* points in order and every other chain, the pixels and to_keep as they were;
\* with no chain live or no edge spanning the projection it changes nothing.
AddInsertsOnNearestEdge ==
    (dialog = "open" /\ mode = NORMAL_MODE) =>
        \A c \in Cursors : \A near \in NearestLines(Self, c) :
            LET t == on_key_down(Self, "a", c, NoPick, near)
            IN /\ SpannedEdges(c) = {} => t = Self
               /\ t # Self =>
                     \E e \in SpannedEdges(c) :
                        /\ \A f \in SpannedEdges(c) : NoFarther(e, f, c)
                        /\ DOMAIN t.artists = DOMAIN artists
                        /\ InsertedAfter(t.artists[e[1]].xy, artists[e[1]].xy, e[2] + 1)
                        /\ \A b \in DOMAIN artists \ {e[1]} : t.artists[b] = artists[b]
                        /\ t.labels = labels
                        /\ t.to_keep = to_keep
                        /\ t.exc = NoExc

\* C16: N in normal mode takes as object number the length of to_keep, which
\* is the number of no pixel and of no live chain, appends one True entry to
\* to_keep, and adds exactly one chain, of that number, edited and outside.
NewObjectNumberIsFresh ==
    (dialog = "open" /\ mode = NORMAL_MODE) =>
        \A c \in Cursors :
            LET t == on_key_down(Self, "n", c, NoPick, NoPick)
                added == DOMAIN t.artists \ DOMAIN artists
            IN /\ Len(to_keep) \notin LabelsIn(labels)
               /\ Len(to_keep) \notin LabelsOf(Self)
               /\ t.to_keep = Append(to_keep, TRUE)
               /\ Cardinality(added) = 1
               /\ \A a \in added :
                     /\ t.artists[a].label = Len(to_keep)
                     /\ t.artists[a].edited
                     /\ t.artists[a].outside
               /\ \A b \in DOMAIN artists : b \in DOMAIN t.artists /\ t.artists[b] = artists[b]
               /\ t.exc = NoExc

\* C17: every vertex of the chain N adds lies in the image, 0 <= x <= W - 1
\* and 0 <= y <= H - 1, for every cursor position in the image.
NewPolygonInsideImage ==
    (dialog = "open" /\ mode = NORMAL_MODE) =>
        \A c \in Cursors :
            LET t == on_key_down(Self, "n", c, NoPick, NoPick)
            IN \A a \in DOMAIN t.artists \ DOMAIN artists :
                  \A k \in DOMAIN t.artists[a].xy :
                     /\ 0 <= t.artists[a].xy[k][1]
                     /\ t.artists[a].xy[k][1] <= Scale * (W - 1)
                     /\ 0 <= t.artists[a].xy[k][2]
                     /\ t.artists[a].xy[k][2] <= Scale * (H - 1)

\* C18: Escape in normal mode leaves no live chain and leaves the label matrix
\* and to_keep exactly as they were, edited chains or not, and raises nothing.
EscapeDiscardsChains ==
    [][(last' = "escape" /\ mode = NORMAL_MODE) =>
          /\ artists' = EmptyArtists
          /\ exc' = NoExc
          /\ UNCHANGED <<labels, orig_labels, to_keep, mode>>]_vars

\* C18 witness: Escape has just discarded the chain of a new object, whose
\* number is the number of no pixel
EditedChainDiscarded ==
    /\ last = "escape"
    /\ mode = NORMAL_MODE
    /\ artists = EmptyArtists
    /\ allocated > 0
    /\ (Len(to_keep) - 1) \notin LabelsIn(labels)
    /\ split_pick_artist = NoArtist

\* C19: in normal mode a left click on a pixel of object L # 0, which in the
\* original panel hits no vertex, negates to_keep[L] in the original panel,
\* makes it False in the keep panel and True in the remove panel, and changes
\* nothing else; a left click on background changes nothing.
LeftClickSetsKeep ==
    (dialog = "open" /\ mode = NORMAL_MODE) =>
        \A inaxes \in {"orig", "keep", "remove"}, c \in Cursors :
            \A pick \in get_control_point(Self, c), first \in FirstContaining(Self, c) :
                LET L == labels[PixelOf(c)]
                    t == on_click(Self, [inaxes |-> inaxes, button |-> 1, c |-> c],
                                  pick, first)
                IN (inaxes = "orig" => pick = NoPick) =>
                      IF L = 0 THEN t = Self
                      ELSE /\ L + 1 \in DOMAIN to_keep
                           /\ t = [Self EXCEPT !.to_keep[L + 1] =
                                       IF inaxes = "orig" THEN ~to_keep[L + 1]
                                       ELSE inaxes = "remove"]

\* the symmetric difference of the filled polygons of the chains in as
RECURSIVE XorOfPolygons(_)
XorOfPolygons(as) ==
    IF as = {} THEN {}
    ELSE LET a == CHOOSE b \in as : TRUE
             rest == XorOfPolygons(as \ {a})
             poly == polygon_lines_to_mask(artists[a].xy)
         IN (rest \ poly) \cup (poly \ rest)

\* C20: closing an object with an edited chain gives its number to exactly
\* the pixels of the symmetric difference of its chains' filled polygons,
\* whatever number they had, and 0 to every other pixel that had its number;
\* with no edited chain the label matrix is unchanged; either way exactly the
\* object's chains are removed, the other chains stay as they are, and nothing
\* is raised.
CloseRasterizesChains ==
    dialog = "open" =>
        \A label \in LabelsOf(Self) : \A show \in BOOLEAN :
            LET mine == {a \in DOMAIN artists : artists[a].label = label}
                mask == XorOfPolygons(mine)
                t == close_label(Self, label, show)
            IN /\ t.labels =
                     IF \E a \in mine : artists[a].edited
                     THEN [p \in Pixels |-> IF p \in mask THEN label
                                            ELSE IF labels[p] = label THEN 0
                                            ELSE labels[p]]
                     ELSE labels
               /\ DOMAIN t.artists = DOMAIN artists \ mine
               /\ \A b \in DOMAIN t.artists : t.artists[b] = artists[b]
               /\ t.to_keep = to_keep
               /\ t.exc = NoExc

\* the chain's last point repeats its first
Closed(xy) == Len(xy) >= 2 /\ xy[1] = xy[Len(xy)]

\* C21: every chain make_control_points produces, of an outer boundary or of
\* a hole, decimated or not, is closed: its last point equals its first point.
TracedChainsClosed ==
    /\ last = "trace" => \A a \in DOMAIN artists : Closed(artists[a].xy)
    /\ last = "strip" => Closed(answer[1].xy)

\* the chain make_control_points made for component k of a polarity: the
\* chains of a fresh dialog are numbered in the order they are made, outer
\* boundaries first
TracedChain(polarity, k) ==
    artists[IF polarity THEN k ELSE Len(TracedComponents(labels, 1, TRUE)) + k]

\* the pixel the walk started at: the closing point of the chain
WalkStart(xy) == <<xy[Len(xy)][2] \div Scale, xy[Len(xy)][1] \div Scale>>

\* C22 as stated: the walk of every traced component starts at the
\* component's topmost-then-leftmost pixel, the lexicographic minimum of
\* (row, column).
WalkStartsTopmostLeftmost ==
    last = "trace" =>
        \A polarity \in BOOLEAN :
            \A k \in DOMAIN TracedComponents(labels, 1, polarity) :
                WalkStart(TracedChain(polarity, k).xy)
                    = RasterFirst(TracedComponents(labels, 1, polarity)[k])

\* the padded array's squared distance from its corner [0, 0] to pixel p
CornerDistance(p) == (p[1] + 1) * (p[1] + 1) + (p[2] + 1) * (p[2] + 1)

\* C22: the walk of every traced component starts at the component's pixel
\* nearest the top left corner of the padded array (least i*i + j*j in
\* padded coordinates), the first such pixel in raster order when several
\* are equally near.
WalkStartsNearestCorner ==
    last = "trace" =>
        \A polarity \in BOOLEAN :
            \A k \in DOMAIN TracedComponents(labels, 1, polarity) :
                LET C == TracedComponents(labels, 1, polarity)[k]
                    start == WalkStart(TracedChain(polarity, k).xy)
                IN /\ start \in C
                   /\ \A q \in C :
                        \/ CornerDistance(start) < CornerDistance(q)
                        \/ /\ CornerDistance(start) = CornerDistance(q)
                           /\ RasterLeq(start, q)

\* a component was traced from a pixel that is not its topmost-leftmost one
StartedBelowTopRow ==
    /\ last = "trace"
    /\ exc = NoExc
    /\ \E k \in DOMAIN TracedComponents(labels, 1, TRUE) :
          LET C == TracedComponents(labels, 1, TRUE)[k]
          IN /\ WalkStart(TracedChain(TRUE, k).xy) \in C
             /\ WalkStart(TracedChain(TRUE, k).xy)[1] > RasterFirst(C)[1]

\* the pixels the walk collects along a strip of n pixels: out along the row
\* and back, the start not repeated
StripWalk(n) == [k \in 1..(2 * (n - 1)) |-> <<0, IF k <= n THEN k - 1 ELSE 2 * n - 1 - k>>]

\* every stride-th pixel of the walk of the probed strip in its winding,
\* from the first on, and the start pixel after them, as points <<x, y>>
StripChainKept(stride) ==
    LET walked == StripWalk(probe.n)
        wound == IF probe.polarity THEN walked ELSE Reverse(walked)
        kept == ((Len(wound) - 1) \div stride) + 1
    IN [m \in 1..(kept + 1) |->
           LET p == IF m <= kept THEN wound[(m - 1) * stride + 1] ELSE <<0, 0>>
           IN <<Scale * p[2], Scale * p[1]>>]

\* C23 as stated: a traced chain of more than 40 points keeps every point
\* whose index is a multiple of the stride ceil(len/20), the stride being at
\* least 10; a chain of 40 points or fewer keeps every point; the closing
\* point follows in either case.
DecimationStrideAtLeastTen ==
    last = "strip" =>
        LET len == 2 * (probe.n - 1)
        IN answer[1].xy = StripChainKept(IF len > 40
                                         THEN Max2(10, (len + 19) \div 20) ELSE 1)

\* C23: a traced chain of more than 40 points keeps every point whose index
\* is a multiple of the stride ceil(len/20), the stride being at most 10; a
\* chain of 40 points or fewer keeps every point; the closing point follows
\* in either case.
DecimationStrideAtMostTen ==
    last = "strip" =>
        LET len == 2 * (probe.n - 1)
        IN answer[1].xy = StripChainKept(IF len > 40
                                         THEN Min2(10, (len + 19) \div 20) ELSE 1)

\* a chain of more than 200 points was decimated with stride 10
LongChainDecimatedByTen ==
    /\ last = "strip"
    /\ 2 * (probe.n - 1) > 200
    /\ answer[1].status = "ok"
    /\ Len(answer[1].xy) = ((2 * (probe.n - 1) - 1) \div 10) + 2

\* the object has no hole: the background around it, padded, is one
\* 4-connected component
NoHoles(mask) == Len(Label(PaddedPixels \ mask, Structure(FALSE))) = 1

\* the object is nowhere one pixel wide: each of its pixels lies in a block
\* of 2 x 2 of its pixels
NoNecks(mask) ==
    \A p \in mask : \E q \in Pixels :
        /\ p[1] - q[1] \in 0..1 /\ p[2] - q[2] \in 0..1
        /\ {<<q[1] + a, q[2] + b>> : a \in 0..1, b \in 0..1} \subseteq mask

HitVertices ==
    UNION {{<<a, k>> : k \in 0..(Len(probe.artists[a].xy) - 2)} :
              a \in DOMAIN probe.artists}

\* the squared screen distance of vertex v from the cursor, times Scale^2
ScreenDistance2(v) == Zoom * Zoom * Dist2(probe.artists[v[1]].xy[v[2] + 1], probe.c)

\* the vertices nearest the cursor, if they are nearer than epsilon
NearestHits ==
    {v \in HitVertices :
        /\ ScreenDistance2(v) < epsilon * epsilon * Scale * Scale
        /\ \A u \in HitVertices : ScreenDistance2(v) <= ScreenDistance2(u)}

\* C25 as stated: hit testing returns the vertex nearest the cursor over all
\* live chains (closing points excluded) when it is nearer than 5 px, and no
\* hit otherwise, whatever the order in which the chains are examined.
HitIsNearestInAnyOrder ==
    answer # NoAnswer =>
        /\ Cardinality(answer[1]) = 1
        /\ \A pick \in answer[1] :
              IF NearestHits = {} THEN pick = NoPick ELSE pick \in NearestHits

\* C25: hit testing returns a vertex nearest the cursor over all live chains
\* (closing points excluded) when it is nearer than 5 px, the first such
\* vertex of its chain, and no hit otherwise; when the nearest vertices are
\* on one chain the result is the same in whatever order the chains are
\* examined, and when they are on several chains each of them can be the
\* result.
HitIsNearest ==
    answer # NoAnswer =>
        /\ \A pick \in answer[1] :
              IF NearestHits = {} THEN pick = NoPick
              ELSE /\ pick \in NearestHits
                   /\ \A v \in NearestHits : v[1] = pick[1] => pick[2] <= v[2]
        /\ NearestHits # {} => {pick[1] : pick \in answer[1]} = {v[1] : v \in NearestHits}
        /\ Cardinality({v[1] : v \in NearestHits}) <= 1 => Cardinality(answer[1]) = 1

\* two chains have a vertex nearer than epsilon to the cursor, the second
\* chain's is the nearer one, and it is the result
NearerOfTwoChainsHit ==
    /\ answer # NoAnswer
    /\ DOMAIN probe.artists = {1, 2}
    /\ \E u \in HitVertices, v \in HitVertices :
          /\ u[1] = 1 /\ v[1] = 2
          /\ ScreenDistance2(u) < epsilon * epsilon * Scale * Scale
          /\ ScreenDistance2(v) < ScreenDistance2(u)
          /\ answer[1] = {v}

\* C26: Reset, after any sequence of operations, leaves the working label
\* matrix equal to the original, no chain live and a keep/remove set of
\* exactly one entry per original object number (length = largest original
\* number + 1), and raises nothing.
ResetRestoresOriginal ==
    dialog = "open" =>
        LET t == on_reset(Self)
        IN /\ t.exc = NoExc
           /\ t.labels = given_labels
           /\ t.artists = EmptyArtists
           /\ Len(t.to_keep) = SetMax(LabelsIn(given_labels) \cup {0}) + 1

WithoutGap == <<probe.objects[1], probe.objects[3]>>

ChangedChainsEdited(t) ==
    \A a \in DOMAIN t.artists \cap DOMAIN artists :
        t.artists[a].xy # artists[a].xy => t.artists[a].edited

\* C29: a drag of a vertex, add control point, delete control point and the
\* splice of an outside chain with a hole chain leave the chain whose
\* vertices they changed flagged edited.  (A split within one chain closes
\* both halves itself and traces them anew.)
EditsFlagTheChain ==
    dialog = "open" =>
        /\ \A c \in Cursors : \A pick \in get_control_point(Self, c) :
              /\ ChangedChainsEdited(on_mouse_moved(Self, [inaxes |-> "orig", c |-> c],
                                                    pick))
              /\ ChangedChainsEdited(on_key_down(Self, "d", c, pick, NoPick))
              /\ (mode = SPLIT_PICK_SECOND_MODE /\ pick[1] # split_pick_artist) =>
                    \A button \in Buttons :
                        ChangedChainsEdited(
                            on_split_second_click(
                                Self, [inaxes |-> "orig", button |-> button, c |-> c],
                                pick))
        /\ \A c \in Cursors : \A near \in NearestLines(Self, c) :
              ChangedChainsEdited(on_key_down(Self, "a", c, NoPick, near))

\* every live chain of the dialog t is closed
AllClosed(t) == \A a \in DOMAIN t.artists : Closed(t.artists[a].xy)

\* C30: when every live chain is closed, it is so again after a drag of a
\* vertex, add control point, delete control point and a split, whichever
\* vertex they act on, the one at index 0 included.
EditsKeepChainsClosed ==
    (dialog = "open" /\ AllClosed(Self)) =>
        /\ \A c \in Cursors : \A pick \in get_control_point(Self, c) :
              /\ AllClosed(on_mouse_moved(Self, [inaxes |-> "orig", c |-> c], pick))
              /\ AllClosed(on_key_down(Self, "d", c, pick, NoPick))
              /\ mode = SPLIT_PICK_SECOND_MODE =>
                    \A button \in Buttons :
                        AllClosed(on_split_second_click(
                                      Self, [inaxes |-> "orig", button |-> button, c |-> c],
                                      pick))
        /\ \A c \in Cursors : \A near \in NearestLines(Self, c) :
              AllClosed(on_key_down(Self, "a", c, NoPick, near))

\* the object numbers the session refers to: those of the working label
\* matrix and those carried by the live chains
ObjectIdsInUse ==
    LabelsIn(labels) \cup {artists[a].label : a \in DOMAIN artists}

\* C31: in every state of a session, every object number present in the
\* working label matrix and every object number carried by a live chain is an
\* index of to_keep (it is less than the length of to_keep).
KeepSetCoversObjects ==
    dialog = "open" => \A l \in ObjectIdsInUse : l < Len(to_keep)

\* C32: for every object of a label matrix, every component of at least 2
\* pixels (outer component or hole) is traced into a chain: at each step the
\* walk finds a next pixel of the component and it comes back to its start
\* pixel, so that make_control_points raises nothing and leaves one chain per
\* component; so does the walk of a strip of any length.
TracingTerminates ==
    /\ last = "trace" =>
          /\ exc = NoExc
          /\ Cardinality(DOMAIN artists)
                = Len(TracedComponents(labels, 1, TRUE))
                    + Len(TracedComponents(labels, 1, FALSE))
    /\ last = "strip" => answer[1].status = "ok"

\* an object with a hole has been traced: an outer chain and a hole chain
HoleAndOuterTraced ==
    /\ last = "trace"
    /\ exc = NoExc
    /\ \E a, b \in DOMAIN artists : artists[a].outside /\ ~artists[b].outside

\* C33: whenever the mode is split-pick-second, the chain the first pick
\* recorded (split_pick_artist) is a live chain, whatever clicks, keys,
\* motion and buttons were handled since the pick.
FirstPickStaysLive ==
    (dialog = "open" /\ mode = SPLIT_PICK_SECOND_MODE)
        => split_pick_artist \in DOMAIN artists

\* C34: whenever a vertex drag is in progress (active_artist and active_index
\* are set, between the mouse press and the release), the active chain is a
\* live chain and the active index is the index of one of its points, whatever
\* keys and buttons were handled since the press.
DragTargetStaysValid ==
    (dialog = "open" /\ active_artist # NoArtist) =>
        /\ active_artist \in DOMAIN artists
        /\ active_index \in 0..(Len(artists[active_artist].xy) - 1)

\* C35: in every state of a session the split preview segment (split_artist)
\* exists exactly when the mode is split-pick-second.
PreviewExistsIffPickSecond ==
    dialog = "open" => ((split_artist # <<>>) <=> (mode = SPLIT_PICK_SECOND_MODE))

\* a successful second pick has removed the preview the first pick created
SecondPickRemovedPreview ==
    /\ last = "click"
    /\ mode = NORMAL_MODE
    /\ split_artist = <<>>
    /\ split_pick_artist # NoArtist
    /\ exc = NoExc

\* the keep/remove flags of the objects of the dialog s are those of Self
SameFlags(s) ==
    /\ Len(s.to_keep) >= Len(to_keep)
    /\ \A k \in 1..Len(to_keep) : s.to_keep[k] = to_keep[k]

\* the click that took the dialog to s was a second pick that split: it left
\* split-pick-second mode
SplitDone(s) == mode = SPLIT_PICK_SECOND_MODE /\ s.mode = NORMAL_MODE

\* C36: while the mode is split-pick-first or split-pick-second, the keys J,
\* C, A, D, N and S change neither chains, label matrix, to_keep nor mode, and
\* a mouse click, whatever its panel and button, changes no object's
\* keep/remove flag and neither opens nor closes an object for editing: the
\* chains and the label matrix stay as they are unless the click is the
\* second pick of a split.
SplitModeIgnoresNormalTools ==
    (dialog = "open" /\ mode \in {SPLIT_PICK_FIRST_MODE, SPLIT_PICK_SECOND_MODE}) =>
        /\ \A key \in Keys \ {"escape"} : \A c \in Cursors :
              \A pick \in get_control_point(Self, c), near \in NearestLines(Self, c) :
                 LET t == on_key_down(Self, key, c, pick, near)
                 IN /\ t.artists = artists
                    /\ t.labels = labels
                    /\ t.to_keep = to_keep
                    /\ t.mode = mode
        /\ \A inaxes \in Axes, button \in Buttons, c \in Cursors :
              \A pick \in get_control_point(Self, c), first \in FirstContaining(Self, c) :
                 LET t == on_click(Self, [inaxes |-> inaxes, button |-> button,
                                          c |-> c], pick, first)
                 IN /\ SameFlags(t)
                    /\ SplitDone(t) \/ (t.artists = artists /\ t.labels = labels)

\* a key of normal mode has been pressed in split mode with a chain live
NormalKeyPressedInSplitMode ==
    /\ last \in {"j", "c", "a", "d", "n"}
    /\ mode = SPLIT_PICK_FIRST_MODE
    /\ DOMAIN artists # {}

\* C37: dragging a vertex, add control point, delete control point, new
\* object, a cross-chain splice and entering or leaving split mode change no
\* pixel of the working label matrix; neither do releasing the button, a
\* click that starts a drag, toggles or opens an object, a pick that does not
\* split, nor Keep all, Remove all and Reverse selection: pixels change only
\* when an object is closed (by a right click, in J, in C and in the
\* same-chain split) or on Reset.
OnlyClosingWritesPixels ==
    dialog = "open" =>
        /\ \A inaxes \in Axes, c \in Cursors : \A pick \in get_control_point(Self, c) :
              on_mouse_moved(Self, [inaxes |-> inaxes, c |-> c], pick).labels = labels
        /\ \A key \in {"a", "d", "n", "s", "escape"} : \A c \in Cursors :
              \A pick \in get_control_point(Self, c), near \in NearestLines(Self, c) :
                 on_key_down(Self, key, c, pick, near).labels = labels
        /\ \A inaxes \in Axes, button \in Buttons, c \in Cursors :
              \A pick \in get_control_point(Self, c), first \in FirstContaining(Self, c) :
                 LET t == on_click(Self, [inaxes |-> inaxes, button |-> button,
                                          c |-> c], pick, first)
                 IN t.labels # labels =>
                       \/ /\ mode = NORMAL_MODE
                          /\ inaxes = "orig" /\ button = 3 /\ first # NoArtist
                       \/ /\ mode = SPLIT_PICK_SECOND_MODE
                          /\ pick[1] = split_pick_artist
                          /\ t.mode = NORMAL_MODE
        /\ on_mouse_button_up(Self).labels = labels
        /\ on_keep(Self).labels = labels
        /\ on_remove(Self).labels = labels
        /\ on_toggle(Self).labels = labels

\* a drag has moved a vertex and the label matrix is still the one given
DraggedWithoutWritingPixels ==
    /\ last = "motion"
    /\ \E a \in DOMAIN artists : artists[a].edited
    /\ labels = given_labels
    /\ LabelsIn(labels) # {}

\* C38: when Done has been pressed and the label matrix returned, no live
\* chain is flagged edited: every edit of the session, a new object's polygon
\* and the chains of an object still open included, has been rasterized into
\* the returned label matrix.
DoneLeavesNoEditUnrasterized ==
    (dialog = "ok" /\ run_state = "returned") =>
        \A a \in DOMAIN artists : ~artists[a].edited

\* the session t that J or C left has kept every keep/remove decision: the
\* background entry is as it was, each object number k with an entry has its
\* flag at its new number (the lowest merged number when k was merged,
\* otherwise its rank among the numbers that stay), and every pixel of an
\* object with an entry carries the new number of its object or, inside the
\* hull, the merged object's
FlagsFollowObjects(t, ids, hull) ==
    LET lowest == SetMin(ids)
        gone == ids \ {lowest}
        closed == CloseAll(Self, SortedSeq(ids), 1)
        NewNumber(k) == IF k \in ids THEN lowest ELSE Rank(k, gone)
    IN /\ Len(t.to_keep) = Len(to_keep) - Cardinality(gone)
       /\ KeepAt(t.to_keep, 0) = KeepAt(to_keep, 0)
       /\ \A k \in 1..(Len(to_keep) - 1) :
             KeepAt(t.to_keep, NewNumber(k))
                = KeepAt(to_keep, IF k \in ids THEN lowest ELSE k)
       /\ \A p \in Pixels :
             closed.labels[p] < Len(to_keep) =>
                /\ t.labels[p] < Len(t.to_keep)
                /\ \/ t.labels[p] = NewNumber(closed.labels[p])
                   \/ hull /\ t.labels[p] = lowest

\* C39: J with chains of at least 2 object numbers live, and C with chains
\* live, keep the keep/remove decision of every object: an object that is not
\* merged away has its flag under its possibly renumbered number, the merged
\* object has the flag of the lowest merged number, and entry 0 (background)
\* is neither removed nor changed.
JoinKeepsDecisions ==
    (dialog = "open" /\ mode = NORMAL_MODE) =>
        /\ Cardinality(LabelsOf(Self)) >= 2
              => FlagsFollowObjects(Pressed("j"), LabelsOf(Self), FALSE)
        /\ Cardinality(LabelsOf(Self)) >= 1
              => FlagsFollowObjects(Pressed("c"), LabelsOf(Self), TRUE)

====
